---- MODULE Spec2Model ----
(***************************************************************************)
(* Model of the Productive API client (src/productive_client.py): the      *)
(* retry/backoff loop of ProductiveClient._request, its classification of  *)
(* HTTP and transport outcomes, and the errors it raises.                  *)
(*                                                                         *)
(* One _request call is a coroutine.  Its only suspension points are the   *)
(* await of client.request (pc = "awaiting") and the await of              *)
(* asyncio.sleep (pc = "sleeping"); everything between two awaits runs     *)
(* atomically on the event loop, so each action below is one such slice.   *)
(*                                                                         *)
(* The second part models the response sanitizer (src/utils.py) and the    *)
(* time-field fill-in of get_task (src/tools_read.py) as operators on JSON *)
(* values, applied by a caller to the documents of a bounded family.       *)
(***************************************************************************)
EXTENDS Integers, Sequences, FiniteSets, TLC

(***************************************************************************)
(* Bounds of the model.                                                    *)
(***************************************************************************)
\* Number of _request calls that may be in flight on the shared client in
\* the concurrent specification.
NumCalls == 2

CallIds == 1..NumCalls

(***************************************************************************)
(* Python values.                                                          *)
(***************************************************************************)
\* Optional values: None is the empty tuple, a present value x is <<x>>.
None == <<>>
Some(x) == <<x>>

(***************************************************************************)
(* What the upstream can answer.  A response is a status code and a raw    *)
(* body text; a transport failure is an httpx.RequestError with its text.  *)
(***************************************************************************)
Statuses == {200, 201, 204, 302, 400, 401, 403, 404, 422, 429, 500, 502, 503}

BodyEmptyData == "{\"data\":[]}"
BodyOneTask   == "{\"data\":[{\"id\":\"7\"}]}"
BodyBoth      == "{\"message\":\"Quota exhausted\",\"errorCode\":\"E_QUOTA\"}"
BodyMessage   == "{\"message\":\"Validation failed\"}"
BodyCode      == "{\"errorCode\":\"E_INTERNAL\"}"
BodyArray     == "[]"
BodyHtml      == "<html>Bad Gateway</html>"

Bodies == {BodyEmptyData, BodyOneTask, BodyBoth, BodyMessage, BodyCode,
           BodyArray, BodyHtml}

TransportTexts == {"Connection refused", "Read timed out"}

Response(status, text) == [kind |-> "response", status_code |-> status, text |-> text]
TransportFailure(text) == [kind |-> "transport", status_code |-> 0, text |-> text]
NoOutcome == [kind |-> "none", status_code |-> 0, text |-> ""]

AllOutcomes ==
    {Response(s, b) : s \in Statuses, b \in Bodies}
      \cup {TransportFailure(t) : t \in TransportTexts}

\* The outcomes used when several calls run concurrently: one of each class.
FewOutcomes ==
    { Response(200, BodyEmptyData), Response(404, BodyMessage),
      Response(500, BodyHtml), TransportFailure("Connection refused") }

(***************************************************************************)
(* response.json(): the parse of a body text.  ok = FALSE is the           *)
(* json.JSONDecodeError the parser raises on a text that is not JSON.      *)
(***************************************************************************)
ParseJson(text) ==
    CASE text = BodyEmptyData -> [ok |-> TRUE, t |-> "object", v |-> [data |-> <<>>]]
      [] text = BodyOneTask   -> [ok |-> TRUE, t |-> "object", v |-> [data |-> <<[id |-> "7"]>>]]
      [] text = BodyBoth      -> [ok |-> TRUE, t |-> "object",
                                  v |-> [message |-> "Quota exhausted", errorCode |-> "E_QUOTA"]]
      [] text = BodyMessage   -> [ok |-> TRUE, t |-> "object", v |-> [message |-> "Validation failed"]]
      [] text = BodyCode      -> [ok |-> TRUE, t |-> "object", v |-> [errorCode |-> "E_INTERNAL"]]
      [] text = BodyArray     -> [ok |-> TRUE, t |-> "array", v |-> <<>>]
      [] OTHER                -> [ok |-> FALSE, t |-> "invalid", v |-> <<>>]

\* dict.get(key, default) on a parsed JSON object.
DictGet(obj, key, default) == IF key \in DOMAIN obj THEN obj[key] ELSE default

(***************************************************************************)
(* State.                                                                  *)
(***************************************************************************)
VARIABLES
    max_retries,   \* ProductiveClient.max_retries
    retry_delay,   \* ProductiveClient.retry_delay, in seconds
    calls,         \* the _request calls the callers make in this run
    upstream,      \* which outcomes the upstream can produce in this run: "any" or "few"
    pc,            \* per call: idle, awaiting, sleeping, returned, raised, cancelled
    attempt,       \* per call: the loop variable of _request
    events,        \* per call: the requests issued and the sleeps started, in order
    outs,          \* per call: the status of each outcome received (None: transport failure)
    last,          \* per call: the last outcome received
    result,        \* per call: what the call returned or raised
    cancelled      \* the calls whose task the calling context cancelled

\* The sanitizer (src/utils.py) and its caller get_task (src/tools_read.py).
VARIABLES
    view,          \* the entry point the caller called: none, prune, default, task_list, page_list
    doc,           \* the caller's document, as it is now
    doc0,          \* the caller's document, as it was when the entry point was called
    out,           \* what the entry point returned (or that it raised)
    again,         \* what filter_response returned when given its own output
    filled         \* whether get_task filled in the time fields of out

\* The tools and client methods that shape requests (src/tools_read.py,
\* src/tools_write.py, src/productive_client.py).
VARIABLES
    tool,          \* the operation that was called: none, get_tasks, get_task, update_page, quick_search
    tpc,           \* where it is: idle, calling, searching, hydrating, done, handled
    args,          \* the arguments it was called with, as they are now
    sent,          \* the calls of _request made so far, in order
    found,         \* quick_search: the items of the search result
    pos,           \* quick_search: the index of the item the loop is at
    rows,          \* quick_search: filtered_data
    reply          \* what the operation returned

clientVars == <<max_retries, retry_delay>>
requestVars == <<max_retries, retry_delay, calls, upstream, pc, attempt, events, outs, last,
                 result, cancelled>>
sanVars == <<view, doc, doc0, out, again, filled>>
toolVars == <<tool, tpc, args, sent, found, pos, rows, reply>>
vars == <<max_retries, retry_delay, calls, upstream, pc, attempt, events, outs, last,
          result, cancelled, view, doc, doc0, out, again, filled,
          tool, tpc, args, sent, found, pos, rows, reply>>

(***************************************************************************)
(* Results of a call.                                                      *)
(***************************************************************************)
NoValue == [t |-> "none", v |-> <<>>]
PyNone == [t |-> "None", v |-> <<>>]
NoExc == [type |-> "", message |-> "", status_code |-> None, error_code |-> None]

Pending == [kind |-> "pending", value |-> NoValue, exc |-> NoExc]
Returned(value) == [kind |-> "return", value |-> value, exc |-> NoExc]
Raised(exc) == [kind |-> "raise", value |-> NoValue, exc |-> exc]

\* ProductiveAPIError(message, status_code = None, error_code = None)
ProductiveAPIError(message, status_code, error_code) ==
    [type |-> "ProductiveAPIError", message |-> message,
     status_code |-> status_code, error_code |-> error_code]

JSONDecodeError == [type |-> "JSONDecodeError", message |-> "", status_code |-> None,
                    error_code |-> None]
CancelledError == [type |-> "CancelledError", message |-> "", status_code |-> None,
                   error_code |-> None]

(***************************************************************************)
(* ProductiveClient.__init__                                               *)
(***************************************************************************)
\* A client built with one retry too many.
InitMaxRetriesFour == 3 + 1

InitMaxRetries == 3
InitRetryDelay == 1

(***************************************************************************)
(* The pure parts of _request.                                             *)
(***************************************************************************)
\* _parse_error_response: (message, error_code).  A body that is not JSON, or
\* whose JSON value has no .get (anything but an object), takes the except
\* branch.
_parse_error_response(response, default_message) ==
    LET parsed == ParseJson(response.text) IN
    IF parsed.ok /\ parsed.t = "object"
    THEN [message |-> DictGet(parsed.v, "message", default_message),
          error_code |-> DictGet(parsed.v, "errorCode", "UNKNOWN")]
    ELSE [message |-> "HTTP " \o ToString(response.status_code) \o ": " \o response.text,
          error_code |-> "UNKNOWN"]

\* Retries every error status that reaches the check, not only 429 and 5xx.
ShouldRetryAnyError(status_code, k) ==
    k < max_retries /\ status_code >= 400

\* The retry test without the count of attempts.
ShouldRetryNoLimit(status_code, k) ==
    status_code = 429 \/ status_code >= 500

_should_retry(status_code, k) ==
    k < max_retries /\ (status_code = 429 \/ status_code >= 500)

\* The range of the for loop.
LoopRange == 0..max_retries

\* A backoff that grows linearly: retry_delay * (attempt + 1).
BackoffLinear(k) == retry_delay * (k + 1)

\* A backoff that does not grow: retry_delay.
BackoffFlat(k) == retry_delay

\* retry_delay * (2 ** attempt)
Backoff(k) == retry_delay * (2 ^ k)

\* The errors raised for 401 and 404.
FixedError(status_code) ==
    IF status_code = 401
    THEN ProductiveAPIError("Unauthorized: Invalid API token", Some(401), Some("UNAUTHORIZED"))
    ELSE ProductiveAPIError("Resource not found", Some(404), Some("NOT_FOUND"))

\* One default message for every status.
DefaultMessageServerOnly(status_code) == "Server error"

DefaultMessage(status_code) ==
    IF status_code = 429 THEN "Rate limit exceeded" ELSE "Server error"

\* The error of the final attempt or of a non-retryable status.
ResponseError(response) ==
    LET parsed == _parse_error_response(response, DefaultMessage(response.status_code)) IN
    ProductiveAPIError(parsed.message, Some(response.status_code), Some(parsed.error_code))

\* response.json() of a 200 response: the value, or the parser's exception.
Success(response) ==
    LET parsed == ParseJson(response.text) IN
    IF parsed.ok THEN Returned([t |-> parsed.t, v |-> parsed.v])
    ELSE Raised(JSONDecodeError)

\* A transport failure is retried on the last attempt too.
TransportRetryOffByOne(k) == k <= max_retries

\* The except httpx.RequestError branch retries while attempts remain.
TransportRetry(k) == k < max_retries

TransportError(o) == ProductiveAPIError("Request failed: " \o o.text, None, None)

\* The loop body without the 401 and 404 cases: they fall through to the
\* retry check and to the error parsed from the body.
HandleNoFixedErrors(o, k) ==
    IF o.kind = "transport"
    THEN IF TransportRetry(k)
         THEN [sleep |-> TRUE, delay |-> Backoff(k), result |-> Pending]
         ELSE [sleep |-> FALSE, delay |-> 0, result |-> Raised(TransportError(o))]
    ELSE IF o.status_code = 200
         THEN [sleep |-> FALSE, delay |-> 0, result |-> Success(o)]
    ELSE IF _should_retry(o.status_code, k)
         THEN [sleep |-> TRUE, delay |-> Backoff(k), result |-> Pending]
    ELSE [sleep |-> FALSE, delay |-> 0, result |-> Raised(ResponseError(o))]

\* Every 2xx status counts as success.
IsSuccessAny2xx(status_code) == status_code \in 200..299

\* if response.status_code == 200
IsSuccess(status_code) == status_code = 200

\* One pass of the loop body after the await of client.request resolved with
\* outcome o on attempt k: either a sleep to start or the result of the call.
Handle(o, k) ==
    IF o.kind = "transport"
    THEN IF TransportRetry(k)
         THEN [sleep |-> TRUE, delay |-> Backoff(k), result |-> Pending]
         ELSE [sleep |-> FALSE, delay |-> 0, result |-> Raised(TransportError(o))]
    ELSE IF IsSuccess(o.status_code)
         THEN [sleep |-> FALSE, delay |-> 0, result |-> Success(o)]
    ELSE IF o.status_code \in {401, 404}
         THEN [sleep |-> FALSE, delay |-> 0, result |-> Raised(FixedError(o.status_code))]
    ELSE IF _should_retry(o.status_code, k)
         THEN [sleep |-> TRUE, delay |-> Backoff(k), result |-> Pending]
    ELSE [sleep |-> FALSE, delay |-> 0, result |-> Raised(ResponseError(o))]

(***************************************************************************)
(* Events of a call.                                                       *)
(***************************************************************************)
RequestEvent(k) == [e |-> "request", n |-> k]
SleepEvent(secs) == [e |-> "sleep", n |-> secs]

OutStatus(o) == IF o.kind = "response" THEN Some(o.status_code) ELSE None

(***************************************************************************)
(* The response sanitizer (src/utils.py).                                  *)
(*                                                                         *)
(* JSON values are tagged: t is the Python type of the value, v its        *)
(* content.  A dict is a function from its keys to values, so that two     *)
(* dicts are equal when Python's == says so, whatever their key order.     *)
(* Raise stands for a Python exception leaving the function.               *)
(***************************************************************************)
JNull == [t |-> "null", v |-> <<>>]
JBool(b) == [t |-> "bool", v |-> b]
JNum(n) == [t |-> "num", v |-> n]
JStr(s) == [t |-> "str", v |-> s]
JList(l) == [t |-> "list", v |-> l]
JDict(d) == [t |-> "dict", v |-> d]
Raise == [t |-> "raise", v |-> <<>>]
NoOut == [t |-> "none", v |-> <<>>]

EmptyDict == JDict(<<>>)
EmptyList == JList(<<>>)

Keys(d) == DOMAIN d.v
\* d.get(k, default)
Get(d, k, default) == IF k \in DOMAIN d.v THEN d.v[k] ELSE default
\* d[k] = val
Put(d, k, val) == JDict([j \in (DOMAIN d.v) \cup {k} |-> IF j = k THEN val ELSE d.v[j]])
\* d.pop(k, None) for every k of ks
Del(d, ks) == JDict([j \in (DOMAIN d.v) \ ks |-> d.v[j]])
\* {k: v for k, v in d.items() if k in ks}
Only(d, ks) == JDict([j \in (DOMAIN d.v) \cap ks |-> d.v[j]])

\* bool(x)
Truthy(x) ==
    CASE x.t = "null" -> FALSE
      [] x.t = "bool" -> x.v
      [] x.t = "num"  -> x.v # 0
      [] x.t = "str"  -> x.v # ""
      [] x.t = "list" -> Len(x.v) > 0
      [] x.t = "dict" -> DOMAIN x.v # {}
      [] OTHER -> FALSE

\* x in (None, "", {}, [])
IsEmpty(x) ==
    \/ x.t = "null"
    \/ x.t = "str" /\ x.v = ""
    \/ x.t = "dict" /\ DOMAIN x.v = {}
    \/ x.t = "list" /\ Len(x.v) = 0

\* Whether hash(x) succeeds: lists and dicts are unhashable.
Hashable(x) == x.t \notin {"list", "dict"}

\* The last index of S: the lookup keeps searching after a match.
MaxOf(S) == CHOOSE i \in S : \A j \in S : j <= i
\* The index at which the loop over `included` returns: the first match.
MinOf(S) == CHOOSE i \in S : \A j \in S : i <= j

\* config.organization
OrgId == "4321"

\* str(x) inside an f-string, for the values a type or an id takes here.
Fmt(x) ==
    CASE x.t = "str" -> x.v
      [] x.t = "num" -> ToString(x.v)
      [] x.t = "bool" -> IF x.v THEN "True" ELSE "False"
      [] OTHER -> "?"

\* A URL without the organization segment.
GetWebappUrlNoOrg(resource_type, resource_id) ==
    "https://app.productive.io/" \o Fmt(resource_type) \o "/" \o Fmt(resource_id)

get_webapp_url(resource_type, resource_id) ==
    "https://app.productive.io/" \o OrgId \o "/" \o Fmt(resource_type) \o "/" \o Fmt(resource_id)

\* bleach.clean(text, tags=[], strip=True): the markup tags go, their inner
\* text stays, and a bare & or < is escaped.
BleachClean(text) ==
    CASE text = "<p>Hello <b>world</b></p>" -> "Hello world"
      [] text = "<p></p>" -> ""
      [] text = "<h1>Plan</h1>" -> "Plan"
      [] text = "R&D" -> "R&amp;D"
      [] OTHER -> text

\* A filter whose rule set for projects was forgotten.
RemoveFieldsNoProjects(obj_type) ==
    IF obj_type.t # "str" THEN {}
    ELSE CASE obj_type.v = "tasks" -> {"creation_method_id", "email_key", "placement"}
           [] obj_type.v \in {"pages", "page"} ->
                {"preferences", "cover_image_meta", "custom_fields", "version_number", "position"}
           [] obj_type.v = "attachments" -> {"attachable_type", "attachable_id"}
           [] OTHER -> {}

\* remove_fields.get(obj_type, [])
RemoveFields(obj_type) ==
    IF obj_type.t # "str" THEN {}
    ELSE CASE obj_type.v = "tasks" -> {"creation_method_id", "email_key", "placement"}
           [] obj_type.v \in {"pages", "page"} ->
                {"preferences", "cover_image_meta", "custom_fields", "version_number", "position"}
           [] obj_type.v = "attachments" -> {"attachable_type", "attachable_id"}
           [] obj_type.v = "projects" ->
                {"sample_data", "template", "time_on_tasks", "project_color_id",
                 "duplication_status", "project_type_id", "preferences", "number"}
           [] OTHER -> {}

\* html_fields.get(obj_type, [])
HtmlFields(obj_type) ==
    IF obj_type.t # "str" THEN {}
    ELSE CASE obj_type.v \in {"tasks", "todos"} -> {"description"}
           [] obj_type.v = "comments" -> {"body"}
           [] OTHER -> {}

\* _filter_attributes(attributes, obj_type), attributes a dict.  The lookups
\* of obj_type in the two tables raise TypeError when it is unhashable.
_filter_attributes(attributes, obj_type) ==
    IF ~Hashable(obj_type) THEN Raise
    ELSE LET filtered == Del(attributes, RemoveFields(obj_type)) IN
         JDict([k \in Keys(filtered) |->
                  IF k \in HtmlFields(obj_type) /\ filtered.v[k].t = "str"
                  THEN JStr(BleachClean(filtered.v[k].v))
                  ELSE filtered.v[k]])

\* An allow-list that lets the description through.
EssentialFieldsWithDescription ==
    {"title", "description", "task_number", "closed", "created_at", "updated_at",
     "initial_estimate", "remaining_time", "worked_time", "billable_time", "closed_at",
     "type_id", "private", "workflow_status_name"}

\* essential_fields of _filter_task_list_attributes
EssentialFields ==
    {"title", "task_number", "closed", "created_at", "updated_at", "initial_estimate",
     "remaining_time", "worked_time", "billable_time", "closed_at", "type_id", "private",
     "workflow_status_name"}

\* _filter_task_list_attributes(attributes), attributes a dict.
_filter_task_list_attributes(attributes) == Only(attributes, EssentialFields)

\* dict(x): a copy of a dict, {} of an empty sequence or string, TypeError or
\* ValueError of the other values of this model (none is a sequence of pairs).
DictOf(x) ==
    CASE x.t = "dict" -> x
      [] x.t = "list" /\ Len(x.v) = 0 -> EmptyDict
      [] x.t = "str" /\ x.v = "" -> EmptyDict
      [] OTHER -> Raise

\* A cleaning that forgets to pop `settings`.
CleanMetaKeepSettings(meta) ==
    LET cleaned == DictOf(meta) IN
    IF cleaned = Raise THEN [ret |-> Raise, arg |-> meta]
    ELSE [ret |-> IF Get(cleaned, "included", JNull) = JBool(FALSE)
                  THEN Del(cleaned, {"included"}) ELSE cleaned,
          arg |-> meta]

\* A cleaning that pops from the caller's meta object instead of a copy.
CleanMetaInPlace(meta) ==
    IF meta.t # "dict" THEN [ret |-> DictOf(meta), arg |-> meta]
    ELSE LET dropFalse == IF Get(meta, "included", JNull) = JBool(FALSE)
                          THEN Del(meta, {"included"}) ELSE meta
             cleaned == Del(dropFalse, {"settings"})
         IN [ret |-> cleaned, arg |-> cleaned]

\* _clean_meta_object(meta): ret is what it returns, arg is the caller's meta
\* object after the call (the pops act on a copy).
_clean_meta_object(meta) ==
    LET cleaned == DictOf(meta) IN
    IF cleaned = Raise THEN [ret |-> Raise, arg |-> meta]
    ELSE LET dropFalse == IF Get(cleaned, "included", JNull) = JBool(FALSE)
                          THEN Del(cleaned, {"included"}) ELSE cleaned
         IN [ret |-> Del(dropFalse, {"settings"}), arg |-> meta]

\* A pruning that leaves the relationships as they are.
RedundantRelationshipsNone == {}
\* The entries dropped from a relationships mapping: `if k != "organization"`.
RedundantRelationships == {"organization"}

\* A pruning that skips no key.
SkippedKeysNone == {}
\* The keys skipped whatever their value: `if key == "links": continue`.
SkippedKeys == {"links"}

RECURSIVE remove_null_and_empty(_)
remove_null_and_empty(obj) ==
    IF obj.t = "dict"
    THEN LET keys == Keys(obj) \ SkippedKeys
             value(k) == IF k = "relationships" /\ obj.v[k].t = "dict"
                         THEN Del(obj.v[k], RedundantRelationships)
                         ELSE obj.v[k]
             cleaned == [k \in keys |-> remove_null_and_empty(value(k))]
             nonEmpty == {k \in keys : ~IsEmpty(cleaned[k])}
             final == [k \in nonEmpty |->
                         IF k = "attributes" /\ cleaned[k].t = "dict"
                         THEN _filter_attributes(cleaned[k], Get(obj, "type", JNull))
                         ELSE IF k = "meta" /\ cleaned[k].t = "dict"
                         THEN _clean_meta_object(cleaned[k]).ret
                         ELSE cleaned[k]]
             stored == {k \in nonEmpty : ~(k = "meta" /\ cleaned[k].t = "dict" /\ ~Truthy(final[k]))}
         IN IF \E k \in nonEmpty : final[k] = Raise THEN Raise
            ELSE JDict([k \in stored |-> final[k]])
    ELSE IF obj.t = "list"
    THEN LET cleaned == [i \in 1..Len(obj.v) |-> remove_null_and_empty(obj.v[i])] IN
         IF \E i \in 1..Len(obj.v) : cleaned[i] = Raise THEN Raise
         ELSE JList(SelectSeq(cleaned, LAMBDA x : ~IsEmpty(x)))
    ELSE obj

\* _add_webapp_url(item): the item after the call.
_add_webapp_url(item) ==
    IF item.t # "dict" THEN item
    ELSE LET resource_type == Get(item, "type", JNull)
             resource_id == Get(item, "id", JNull)
         IN IF Truthy(resource_type) /\ Truthy(resource_id)
            THEN Put(item, "webapp_url", JStr(get_webapp_url(resource_type, resource_id)))
            ELSE item

\* _extract_workflow_status_name(item, included): the name, None, or the
\* AttributeError of a .get on a value that is not a dict.
_extract_workflow_status_name(item, included) ==
    IF item.t # "dict" \/ included.t # "list" THEN JNull
    ELSE LET relationships == Get(item, "relationships", EmptyDict) IN
    IF relationships.t # "dict" THEN Raise
    ELSE LET workflow_status_rel == Get(relationships, "workflow_status", EmptyDict) IN
    IF workflow_status_rel.t # "dict" THEN Raise
    ELSE LET workflow_status_data == Get(workflow_status_rel, "data", JNull) IN
    IF ~Truthy(workflow_status_data) \/ workflow_status_data.t # "dict" THEN JNull
    ELSE LET workflow_status_id == Get(workflow_status_data, "id", JNull) IN
    IF ~Truthy(workflow_status_id) THEN JNull
    ELSE LET matches == {i \in 1..Len(included.v) :
                            /\ included.v[i].t = "dict"
                            /\ Get(included.v[i], "type", JNull) = JStr("workflow_statuses")
                            /\ Get(included.v[i], "id", JNull) = workflow_status_id}
         IN IF matches = {} THEN JNull
            ELSE LET attributes == Get(included.v[MinOf(matches)], "attributes", EmptyDict) IN
                 IF attributes.t # "dict" THEN Raise
                 ELSE Get(attributes, "name", JNull)

\* The body of filter_response for one item of data: the item after
\* _add_webapp_url and the workflow status name, or the exception raised.
EnrichItem(item, included) ==
    LET withUrl == _add_webapp_url(item) IN
    IF withUrl.t # "dict" THEN Raise
    ELSE IF Get(withUrl, "type", JNull) # JStr("tasks") THEN withUrl
    ELSE LET workflow_status_name == _extract_workflow_status_name(withUrl, included) IN
         IF workflow_status_name = Raise THEN Raise
         ELSE IF Truthy(workflow_status_name) /\ "attributes" \in Keys(withUrl)
         THEN IF withUrl.v["attributes"].t # "dict" THEN Raise
              ELSE Put(withUrl, "attributes",
                       Put(withUrl.v["attributes"], "workflow_status_name", workflow_status_name))
         ELSE withUrl

\* filter_response(response): ret is what it returns or Raise, arg is the
\* caller's response after the call.
filter_response(response) ==
    LET filtered == remove_null_and_empty(response)
        ret ==
          IF filtered = Raise THEN Raise
          ELSE IF filtered.t = "dict" /\ "data" \in Keys(filtered)
          THEN LET included == Get(response, "included", EmptyList)
                   data == filtered.v["data"]
               IN IF data.t = "dict"
                  THEN LET item == EnrichItem(data, included) IN
                       IF item = Raise THEN Raise ELSE Put(filtered, "data", item)
                  ELSE IF data.t = "list"
                  THEN LET items == [i \in 1..Len(data.v) |-> EnrichItem(data.v[i], included)] IN
                       IF \E i \in 1..Len(data.v) : items[i] = Raise THEN Raise
                       ELSE Put(filtered, "data", JList(items))
                  ELSE filtered
          ELSE filtered
    IN [ret |-> ret, arg |-> response]

\* One item of data in filter_task_list_response.
TaskListItem(item, included) ==
    IF item.t = "dict" /\ Get(item, "type", JNull) = JStr("tasks")
    THEN LET filtered_item == JDict([id |-> Get(item, "id", JNull), type |-> Get(item, "type", JNull)]) IN
         IF "attributes" \notin Keys(item) THEN _add_webapp_url(filtered_item)
         ELSE IF item.v["attributes"].t # "dict" THEN Raise
         ELSE LET attrs == _filter_task_list_attributes(item.v["attributes"])
                  workflow_status_name == _extract_workflow_status_name(item, included)
              IN IF workflow_status_name = Raise THEN Raise
                 ELSE _add_webapp_url(
                        Put(filtered_item, "attributes",
                            IF Truthy(workflow_status_name)
                            THEN Put(attrs, "workflow_status_name", workflow_status_name)
                            ELSE attrs))
    ELSE item

\* A page-list item that keeps the attributes as they came, body included.
PageListItemKeepBody(item) ==
    IF item.t = "dict" /\ Get(item, "type", JNull) = JStr("pages")
    THEN LET new_item == JDict([id |-> Get(item, "id", JNull), type |-> Get(item, "type", JNull)])
             attrs == Get(item, "attributes", EmptyDict)
         IN [ret |-> _add_webapp_url(IF attrs.t = "dict"
                                     THEN Put(new_item, "attributes", attrs)
                                     ELSE new_item),
             arg |-> item]
    ELSE [ret |-> item, arg |-> item]

\* One item of data in filter_page_list_response: ret is the item put in the
\* result, arg is the caller's item after the call (body is popped from a
\* copy of its attributes).
PageListItem(item) ==
    IF item.t = "dict" /\ Get(item, "type", JNull) = JStr("pages")
    THEN LET new_item == JDict([id |-> Get(item, "id", JNull), type |-> Get(item, "type", JNull)])
             attrs == Get(item, "attributes", EmptyDict)
         IN [ret |-> _add_webapp_url(IF attrs.t = "dict"
                                     THEN Put(new_item, "attributes", Del(attrs, {"body"}))
                                     ELSE new_item),
             arg |-> item]
    ELSE [ret |-> item, arg |-> item]

\* A list result that carries the `included` of the response along.
ListResultKeepIncluded(response, hasData, items) ==
    IF \E i \in 1..Len(items) : items[i].ret = Raise THEN [ret |-> Raise, arg |-> response]
    ELSE LET withData == IF hasData
                         THEN Put(response, "data", JList([i \in 1..Len(items) |-> items[i].arg]))
                         ELSE response
             dataOnly == IF hasData
                         THEN JDict([data |-> JList([i \in 1..Len(items) |-> items[i].ret])])
                         ELSE EmptyDict
             dataPart == IF "included" \in Keys(response)
                         THEN Put(dataOnly, "included", response.v["included"])
                         ELSE dataOnly
         IN IF "meta" \notin Keys(response)
            THEN [ret |-> remove_null_and_empty(dataPart), arg |-> withData]
            ELSE LET meta == _clean_meta_object(response.v["meta"]) IN
                 IF meta.ret = Raise THEN [ret |-> Raise, arg |-> withData]
                 ELSE [ret |-> remove_null_and_empty(Put(dataPart, "meta", meta.ret)),
                       arg |-> Put(withData, "meta", meta.arg)]

\* The common end of the two list filters: the data items and the cleaned
\* meta are put in a new dict, which remove_null_and_empty then cleans.
\* items is the sequence of [ret, arg] of the data items, or <<>> when data
\* is absent or not a list.
ListResult(response, hasData, items) ==
    IF \E i \in 1..Len(items) : items[i].ret = Raise THEN [ret |-> Raise, arg |-> response]
    ELSE LET withData == IF hasData
                         THEN Put(response, "data", JList([i \in 1..Len(items) |-> items[i].arg]))
                         ELSE response
             dataPart == IF hasData
                         THEN JDict([data |-> JList([i \in 1..Len(items) |-> items[i].ret])])
                         ELSE EmptyDict
         IN IF "meta" \notin Keys(response)
            THEN [ret |-> remove_null_and_empty(dataPart), arg |-> withData]
            ELSE LET meta == _clean_meta_object(response.v["meta"]) IN
                 IF meta.ret = Raise THEN [ret |-> Raise, arg |-> withData]
                 ELSE [ret |-> remove_null_and_empty(Put(dataPart, "meta", meta.ret)),
                       arg |-> Put(withData, "meta", meta.arg)]

HasDataList(response) == "data" \in Keys(response) /\ response.v["data"].t = "list"

filter_task_list_response(response) ==
    IF response.t # "dict" THEN [ret |-> response, arg |-> response]
    ELSE LET included == Get(response, "included", EmptyList)
             data == IF HasDataList(response) THEN response.v["data"].v ELSE <<>>
             items == [i \in 1..Len(data) |->
                         [ret |-> TaskListItem(data[i], included), arg |-> data[i]]]
         IN ListResult(response, HasDataList(response), items)

filter_page_list_response(response) ==
    IF response.t # "dict" THEN [ret |-> response, arg |-> response]
    ELSE LET data == IF HasDataList(response) THEN response.v["data"].v ELSE <<>>
             items == [i \in 1..Len(data) |-> PageListItem(data[i])]
         IN ListResult(response, HasDataList(response), items)

(***************************************************************************)
(* Initial states.                                                         *)
(***************************************************************************)
ClientInit ==
    /\ max_retries = InitMaxRetries
    /\ retry_delay = InitRetryDelay

CallsInit ==
    /\ pc = [c \in CallIds |-> "idle"]
    /\ attempt = [c \in CallIds |-> 0]
    /\ events = [c \in CallIds |-> <<>>]
    /\ outs = [c \in CallIds |-> <<>>]
    /\ last = [c \in CallIds |-> NoOutcome]
    /\ result = [c \in CallIds |-> Pending]
    /\ cancelled = {}

\* The sanitizer before any call of it.
SanitizerIdle ==
    /\ view = "none"
    /\ doc = JNull
    /\ doc0 = JNull
    /\ out = NoOut
    /\ again = NoOut
    /\ filled = FALSE

\* No tool was called.
ToolsIdle ==
    /\ tool = "none"
    /\ tpc = "idle"
    /\ args = <<>>
    /\ sent = <<>>
    /\ found = <<>>
    /\ pos = 0
    /\ rows = <<>>
    /\ reply = NoOut

\* One call, every outcome.
Init ==
    /\ ClientInit
    /\ CallsInit
    /\ calls = {1}
    /\ upstream = "any"
    /\ SanitizerIdle
    /\ ToolsIdle

\* Several calls on the shared client, one outcome of each class.
InitConcurrent ==
    /\ ClientInit
    /\ CallsInit
    /\ calls = CallIds
    /\ upstream = "few"
    /\ SanitizerIdle
    /\ ToolsIdle

\* The outcomes an awaited request can resolve with in this run.
Outcomes == IF upstream = "any" THEN AllOutcomes ELSE FewOutcomes

(***************************************************************************)
(* Actions.                                                                *)
(***************************************************************************)
\* The loop moves to iteration k: it issues the request of attempt k and
\* awaits it, or, when k is past the range, the function ends returning None.
Iterate(c, k) ==
    IF k \in LoopRange
    THEN /\ pc' = [pc EXCEPT ![c] = "awaiting"]
         /\ attempt' = [attempt EXCEPT ![c] = k]
         /\ events' = [events EXCEPT ![c] = Append(@, RequestEvent(k))]
         /\ UNCHANGED result
    ELSE /\ pc' = [pc EXCEPT ![c] = "returned"]
         /\ result' = [result EXCEPT ![c] = Returned(PyNone)]
         /\ UNCHANGED <<attempt, events>>

\* A caller calls _request: the first iteration of the loop.
Start(c) ==
    /\ c \in calls
    /\ pc[c] = "idle"
    /\ Iterate(c, 0)
    /\ UNCHANGED <<outs, last, cancelled, clientVars, calls, upstream, sanVars, toolVars>>

\* The awaited request resolves with outcome o and the loop body handles it.
Respond(c, o) ==
    /\ pc[c] = "awaiting"
    /\ LET h == Handle(o, attempt[c]) IN
         /\ outs' = [outs EXCEPT ![c] = Append(@, OutStatus(o))]
         /\ last' = [last EXCEPT ![c] = o]
         /\ IF h.sleep
            THEN /\ pc' = [pc EXCEPT ![c] = "sleeping"]
                 /\ events' = [events EXCEPT ![c] = Append(@, SleepEvent(h.delay))]
                 /\ UNCHANGED result
            ELSE /\ pc' = [pc EXCEPT ![c] =
                              IF h.result.kind = "return" THEN "returned" ELSE "raised"]
                 /\ result' = [result EXCEPT ![c] = h.result]
                 /\ UNCHANGED events
    /\ UNCHANGED <<attempt, cancelled, clientVars, calls, upstream, sanVars, toolVars>>

\* The retries left are kept on the client: every retry of any call uses
\* one up.
WakeSharedBudget(c) ==
    /\ pc[c] = "sleeping"
    /\ Iterate(c, attempt[c] + 1)
    /\ max_retries' = max_retries - 1
    /\ UNCHANGED <<outs, last, cancelled, retry_delay, calls, upstream, sanVars, toolVars>>

\* The backoff sleep is over: continue with the next iteration.
Wake(c) ==
    /\ pc[c] = "sleeping"
    /\ Iterate(c, attempt[c] + 1)
    /\ UNCHANGED <<outs, last, cancelled, clientVars, calls, upstream, sanVars, toolVars>>

\* The cancellation is caught like a transport failure (a broad except):
\* the call backs off and retries, or raises ProductiveAPIError.
CancelCounted(c) ==
    /\ pc[c] \in {"awaiting", "sleeping"}
    /\ c \notin cancelled
    /\ cancelled' = cancelled \cup {c}
    /\ LET h == Handle(TransportFailure("cancelled"), attempt[c]) IN
         IF h.sleep
         THEN /\ pc' = [pc EXCEPT ![c] = "sleeping"]
              /\ events' = [events EXCEPT ![c] = Append(@, SleepEvent(h.delay))]
              /\ UNCHANGED result
         ELSE /\ pc' = [pc EXCEPT ![c] = "raised"]
              /\ result' = [result EXCEPT ![c] = h.result]
              /\ UNCHANGED events
    /\ UNCHANGED <<attempt, outs, last, clientVars, calls, upstream, sanVars, toolVars>>

\* The awaited request resolves with one of the outcomes of this run.
Receive(c) == \E o \in Outcomes : Respond(c, o)

\* The task running the call is cancelled at one of its two awaits:
\* CancelledError is raised there, and no except clause of _request matches it.
Cancel(c) ==
    /\ pc[c] \in {"awaiting", "sleeping"}
    /\ cancelled' = cancelled \cup {c}
    /\ pc' = [pc EXCEPT ![c] = "cancelled"]
    /\ result' = [result EXCEPT ![c] = Raised(CancelledError)]
    /\ UNCHANGED <<attempt, events, outs, last, clientVars, calls, upstream, sanVars, toolVars>>

Next ==
    \/ \E c \in CallIds : Start(c)
    \/ \E c \in CallIds : Receive(c)
    \/ \E c \in CallIds : Wake(c)
    \/ \E c \in CallIds : Cancel(c)

Spec == Init /\ [][Next]_vars

SpecConcurrent == InitConcurrent /\ [][Next]_vars

\* One call that nothing cancels: every awaited request is answered and
\* every backoff sleep ends.
NextUncancelled ==
    \/ \E c \in CallIds : Start(c)
    \/ \E c \in CallIds : Receive(c)
    \/ \E c \in CallIds : Wake(c)

Completion == \A c \in CallIds : WF_vars(Receive(c)) /\ WF_vars(Wake(c))

SpecLive == Init /\ [][NextUncancelled]_vars /\ Completion

(***************************************************************************)
(* The time-field fill-in of get_task (src/tools_read.py).                 *)
(***************************************************************************)
TimeFields == {"initial_estimate", "worked_time", "billable_time", "remaining_time"}

\* Whether `x in container` raises TypeError: the container is no dict, list or string.
NotIterable(container) == container.t \notin {"dict", "list", "str"}

\* x in container, for a string x that is no substring of a string of this model.
Contains(container, x) ==
    \/ container.t = "dict" /\ x \in Keys(container)
    \/ container.t = "list" /\ \E i \in 1..Len(container.v) : container.v[i] = JStr(x)

\* What get_task returns for what filter_response returned: the document with
\* the time fields filled in, or the TypeError that leaves get_task.
FillTimeFields(filtered) ==
    IF NotIterable(filtered) THEN Raise
    ELSE IF ~Contains(filtered, "data") THEN filtered
    ELSE IF filtered.t # "dict" \/ NotIterable(filtered.v["data"]) THEN Raise
    ELSE LET data == filtered.v["data"] IN
         IF ~Contains(data, "attributes") THEN filtered
         ELSE IF data.t # "dict" \/ data.v["attributes"].t # "dict" THEN Raise
         ELSE LET attributes == data.v["attributes"] IN
              Put(filtered, "data",
                  Put(data, "attributes",
                      JDict([k \in Keys(attributes) \cup TimeFields |->
                               IF k \in TimeFields /\ Get(attributes, k, JNull) = JNull
                               THEN JNum(0)
                               ELSE attributes.v[k]])))

(***************************************************************************)
(* The documents the entry points are called with.                         *)
(***************************************************************************)
\* The longest `data` sequence of a document.
MaxItems == 2

Ref(type, id) == JDict([data |-> JDict([type |-> JStr(type), id |-> JStr(id)])])
LinksTo(url) == JDict([self |-> JStr(url)])

TaskAttrsFull ==
    JDict([title |-> JStr("Fix login"), task_number |-> JNum(12),
           description |-> JStr("<p>Hello <b>world</b></p>"), email_key |-> JStr("k1"),
           placement |-> JNum(3), closed |-> JBool(FALSE), worked_time |-> JNum(45),
           remaining_time |-> JNull, due_date |-> JStr(""), tag_list |-> JList(<<>>)])

TaskFull ==
    JDict([id |-> JStr("101"), type |-> JStr("tasks"), attributes |-> TaskAttrsFull,
           relationships |-> JDict([workflow_status |-> Ref("workflow_statuses", "5"),
                                    organization |-> Ref("organizations", "1"),
                                    project |-> Put(Ref("projects", "7"), "links", LinksTo("u"))]),
           links |-> LinksTo("u")])
\* A task whose only attribute is on the deny-list of tasks.
TaskDenyOnly ==
    JDict([id |-> JStr("102"), type |-> JStr("tasks"),
           attributes |-> JDict([email_key |-> JStr("k2")]),
           relationships |-> JDict([workflow_status |-> Ref("workflow_statuses", "5")])])
TaskNoAttributes ==
    JDict([id |-> JStr("103"), type |-> JStr("tasks"),
           relationships |-> JDict([workflow_status |-> Ref("workflow_statuses", "5")])])
\* A task whose description is markup without text.
TaskHtmlEmpty ==
    JDict([id |-> JStr("104"), type |-> JStr("tasks"),
           attributes |-> JDict([title |-> JStr("Bare"), description |-> JStr("<p></p>")]),
           relationships |-> JDict([organization |-> Ref("organizations", "1")])])
TaskNoId ==
    JDict([type |-> JStr("tasks"), attributes |-> JDict([title |-> JStr("Draft")]),
           relationships |-> JDict([workflow_status |-> Ref("workflow_statuses", "8")])])
TaskNullAttributes ==
    JDict([id |-> JStr("106"), type |-> JStr("tasks"),
           attributes |-> JDict([title |-> JNull, description |-> JStr("")]),
           relationships |-> JDict([workflow_status |-> Ref("workflow_statuses", "5")])])
TaskNumericId ==
    JDict([id |-> JNum(7), type |-> JStr("tasks"),
           attributes |-> JDict([title |-> JStr("Count"), initial_estimate |-> JNull,
                                 billable_time |-> JNum(30), private |-> JBool(TRUE)]),
           relationships |-> JDict([workflow_status |-> JDict([data |-> JNull])])])
PageFull ==
    JDict([id |-> JStr("3"), type |-> JStr("pages"),
           attributes |-> JDict([title |-> JStr("Plan"), body |-> JStr("<h1>Plan</h1>"),
                                 position |-> JNum(2), version_number |-> JNum(4),
                                 preferences |-> JDict([wide |-> JBool(TRUE)]),
                                 edited_at |-> JNull]),
           relationships |-> JDict([organization |-> Ref("organizations", "1")])])
PageBodyOnly ==
    JDict([id |-> JStr("4"), type |-> JStr("pages"),
           attributes |-> JDict([body |-> JStr("text")])])
PageDenyOnly ==
    JDict([id |-> JStr("5"), type |-> JStr("pages"),
           attributes |-> JDict([position |-> JNum(1)])])
ProjectFull ==
    JDict([id |-> JStr("7"), type |-> JStr("projects"),
           attributes |-> JDict([name |-> JStr("Site"), number |-> JStr("12"),
                                 template |-> JBool(FALSE), sample_data |-> JBool(FALSE),
                                 email_key |-> JStr("k7")])])
CommentFull ==
    JDict([id |-> JStr("9"), type |-> JStr("comments"),
           attributes |-> JDict([body |-> JStr("<p>Hello <b>world</b></p>"),
                                 email_key |-> JStr("k9")])])
\* A resource of a type without a rule set, with a meta object of its own.
PersonFull ==
    JDict([id |-> JStr("8"), type |-> JStr("people"),
           attributes |-> JDict([name |-> JStr("Ann"), email_key |-> JStr("k8"),
                                 placement |-> JNum(1), number |-> JNum(0)]),
           meta |-> JDict([included |-> JBool(FALSE), settings |-> JDict([a |-> JNum(1)]),
                           role |-> JStr("admin")]),
           links |-> LinksTo("u")])
AttachmentFull ==
    JDict([id |-> JStr("6"), type |-> JStr("attachments"),
           attributes |-> JDict([name |-> JStr("a.png"), attachable_type |-> JStr("task"),
                                 attachable_id |-> JNum(101)])])
NoTypeResource ==
    JDict([id |-> JStr("1"), attributes |-> JDict([email_key |-> JStr("k0")])])
\* A page whose body is no string.
PageMapBody ==
    JDict([id |-> JStr("10"), type |-> JStr("pages"),
           attributes |-> JDict([title |-> JStr("Map"), body |-> JDict([blocks |-> JNum(2)])])])
TodoFull ==
    JDict([id |-> JStr("11"), type |-> JStr("todos"),
           attributes |-> JDict([description |-> JStr("<p>Hello <b>world</b></p>"),
                                 body |-> JStr("<p></p>"), closed |-> JBool(FALSE)])])
\* A task whose texts hold a bare ampersand and no markup.
TaskAmpersand ==
    JDict([id |-> JStr("107"), type |-> JStr("tasks"),
           attributes |-> JDict([title |-> JStr("R&D"), description |-> JStr("R&D")])])
\* A task whose description is no string and whose title holds markup.
TaskNumberDescription ==
    JDict([id |-> JStr("108"), type |-> JStr("tasks"),
           attributes |-> JDict([title |-> JStr("<p></p>"), description |-> JNum(5)])])
\* A resource that the pruning leaves empty.
HollowResource ==
    JDict([links |-> LinksTo("u"), meta |-> JDict([settings |-> JDict([a |-> JNum(1)])]),
           attributes |-> JDict([note |-> JNull])])
\* Resources of an unexpected shape.
ListTypeResource ==
    JDict([id |-> JStr("1"), type |-> JList(<<JStr("tasks")>>),
           attributes |-> JDict([title |-> JStr("Odd")])])
TextAttributesTask ==
    JDict([id |-> JStr("2"), type |-> JStr("tasks"), attributes |-> JStr("text")])
TextRelationshipsTask ==
    JDict([id |-> JStr("3"), type |-> JStr("tasks"),
           attributes |-> JDict([title |-> JStr("Rel")]), relationships |-> JStr("none")])

Resources ==
    {TaskFull, TaskDenyOnly, TaskNoAttributes, TaskHtmlEmpty, TaskNoId, TaskNullAttributes,
     TaskNumericId, PageFull, PageBodyOnly, PageDenyOnly, ProjectFull, CommentFull, PersonFull,
     AttachmentFull, NoTypeResource, HollowResource, ListTypeResource, TextAttributesTask,
     TextRelationshipsTask, PageMapBody, TodoFull, TaskAmpersand, TaskNumberDescription}

\* The items the `data` sequences are made of.
ListItems == {TaskFull, TaskDenyOnly, TaskNoAttributes, PageFull, HollowResource, JStr("x")}

SeqsUpTo(S, n) == UNION {[1..m -> S] : m \in 0..n}

\* The values of `data`: one resource, a sequence of resources, a number.
SingleValues == Resources \cup {JNum(5)}
ListValues == {JList(l) : l \in SeqsUpTo(ListItems, MaxItems)}
SingletonValues == {JList(<<r>>) : r \in Resources}
DataValues == SingleValues \cup ListValues

WorkflowStatus(id, attributes) ==
    JDict([id |-> JStr(id), type |-> JStr("workflow_statuses"), attributes |-> attributes,
           links |-> LinksTo("u")])
StatusOpen == WorkflowStatus("5", JDict([name |-> JStr("Open"), position |-> JNum(1)]))
StatusDone == WorkflowStatus("8", JDict([name |-> JStr("Done"), color_id |-> JNull]))
StatusUnnamed == WorkflowStatus("5", JDict([position |-> JNum(2)]))
StatusBlank == WorkflowStatus("5", JDict([name |-> JStr("")]))
StatusTextAttributes == WorkflowStatus("5", JStr("text"))

IncludedValues ==
    {JList(<<StatusOpen>>),
     JList(<<JStr("x"), ProjectFull, StatusDone, StatusOpen>>),
     JList(<<StatusUnnamed, StatusOpen>>),
     JList(<<StatusBlank>>),
     JList(<<JNull, HollowResource>>),
     JList(<<StatusTextAttributes>>),
     JStr("x")}

MetaValues ==
    {JDict([total_count |-> JNum(2), included |-> JBool(FALSE),
            settings |-> JDict([a |-> JNum(1)])]),
     JDict([included |-> JBool(TRUE), links |-> LinksTo("u"), settings |-> JStr(""),
            page |-> JDict([current |-> JNum(1), next |-> JNull])]),
     JDict([settings |-> JDict([a |-> JNum(1)]), included |-> JBool(FALSE)]),
     JList(<<>>),
     JNull,
     JStr("x")}

\* A document: a mapping with or without each of data, included, meta, links.
Document(parts) ==
    JDict([k \in {j \in {"data", "included", "meta", "links"} : parts[j] # NoOut} |-> parts[k]])

\* Every included and meta value with every single resource, some of them
\* with every sequence of resources, every resource alone in a sequence, and
\* top-level links with every data.
Documents ==
    {Document([data |-> d, included |-> i, meta |-> m, links |-> NoOut]) :
        d \in SingleValues \cup {NoOut}, i \in IncludedValues \cup {NoOut},
        m \in MetaValues \cup {NoOut}}
    \cup {Document([data |-> d, included |-> i, meta |-> m, links |-> NoOut]) :
        d \in ListValues,
        i \in {NoOut, JList(<<StatusOpen>>), JList(<<StatusUnnamed, StatusOpen>>)},
        m \in {NoOut, JNull,
               JDict([total_count |-> JNum(2), included |-> JBool(FALSE),
                      settings |-> JDict([a |-> JNum(1)])])}}
    \cup {Document([data |-> d, included |-> i, meta |-> NoOut, links |-> NoOut]) :
        d \in SingletonValues, i \in {NoOut, JList(<<StatusOpen>>)}}
    \cup {Document([data |-> d, included |-> JList(<<StatusOpen>>), meta |-> NoOut,
                    links |-> JDict([next |-> JStr("u")])]) : d \in DataValues}

\* The values the entry points are called with: documents, and values that
\* are no mapping.
Inputs == Documents \cup {JStr("x"), JNull, JNum(5), JList(<<TaskFull, JNull>>), JList(<<JStr("x")>>)}

(***************************************************************************)
(* The caller of the sanitizer: it calls one entry point with its          *)
(* document, and then may filter the result again or, as get_task does,    *)
(* fill in the time fields.                                                *)
(***************************************************************************)
InitSanitizer ==
    /\ ClientInit
    /\ CallsInit
    /\ calls = {}
    /\ upstream = "few"
    /\ view = "none"
    /\ doc \in Inputs
    /\ doc0 = doc
    /\ out = NoOut
    /\ again = NoOut
    /\ filled = FALSE
    /\ ToolsIdle

\* The caller calls an entry point: call is its [ret, arg].
Call(name, call) ==
    /\ view = "none"
    /\ view' = name
    /\ out' = call.ret
    /\ doc' = call.arg
    /\ UNCHANGED <<doc0, again, filled, requestVars, toolVars>>

Prune == Call("prune", [ret |-> remove_null_and_empty(doc), arg |-> doc])
FilterResponse == Call("default", filter_response(doc))
FilterTaskList == Call("task_list", filter_task_list_response(doc))
FilterPageList == Call("page_list", filter_page_list_response(doc))

\* filter_response is called with what it returned.
FilterAgain ==
    /\ view = "default"
    /\ out # Raise
    /\ again = NoOut
    /\ ~filled
    /\ again' = filter_response(out).ret
    /\ UNCHANGED <<view, doc, doc0, out, filled, requestVars, toolVars>>

\* get_task goes on after filter_response returned.
FillIn ==
    /\ view = "default"
    /\ out # Raise
    /\ ~filled
    /\ filled' = TRUE
    /\ out' = FillTimeFields(out)
    /\ UNCHANGED <<view, doc, doc0, again, requestVars, toolVars>>

NextSanitizer ==
    \/ Prune
    \/ FilterResponse
    \/ FilterTaskList
    \/ FilterPageList
    \/ FilterAgain
    \/ FillIn

SpecSanitizer == InitSanitizer /\ [][NextSanitizer]_vars

(***************************************************************************)
(* The request-shaping methods of the client (src/productive_client.py)    *)
(* and the tools update_page (src/tools_write.py) and quick_search         *)
(* (src/tools_read.py).  A request is one call of _request; what _request  *)
(* does with it, retries included, is the client model above, and here a   *)
(* client call ends with a returned document or with an exception.         *)
(***************************************************************************)
\* self._request(method, endpoint, params=params)
Request(method, endpoint, params) ==
    [method |-> method, endpoint |-> endpoint, params |-> params]

\* get_tasks that asks for workflow_status only when the caller named no include.
GetTasksKeepInclude(params) ==
    LET own == IF params = JNull THEN EmptyDict ELSE params
        shaped == IF "include" \in Keys(own) THEN own
                  ELSE Put(own, "include", JStr("workflow_status"))
    IN [request |-> Request("GET", "/tasks", shaped),
        arg |-> IF params = JNull THEN JNull ELSE shaped]

\* ProductiveClient.get_tasks: request is the call of _request, arg the
\* caller's params after the call (the include is written into the caller's
\* dict).
get_tasks(params) ==
    LET own == IF params = JNull THEN EmptyDict ELSE params
        shaped == Put(own, "include", JStr("workflow_status"))
    IN [request |-> Request("GET", "/tasks", shaped),
        arg |-> IF params = JNull THEN JNull ELSE shaped]

\* ProductiveClient.get_task
get_task(task_id) ==
    Request("GET", "/tasks/" \o ToString(task_id), JDict([include |-> JStr("workflow_status")]))

\* ProductiveClient.update_page
client_update_page(page_id, data) ==
    Request("PATCH", "/pages/" \o ToString(page_id), data)

\* ",".join(search_types)
RECURSIVE Join(_)
Join(strings) ==
    IF strings = <<>> THEN ""
    ELSE IF Len(strings) = 1 THEN strings[1]
    ELSE strings[1] \o "," \o Join(Tail(strings))

DefaultSearchTypes == <<"action", "project", "task", "page">>

\* ProductiveClient.quick_search; search_types is None or a list of strings.
client_quick_search(query, search_types, deep_search, page, per_page) ==
    LET types == IF search_types = None THEN DefaultSearchTypes ELSE search_types[1] IN
    Request("GET", "/search/quick",
            JDict(("filter[query]" :> JStr(query))
                  @@ ("filter[type]" :> JStr(Join(types)))
                  @@ ("filter[status]" :> JStr("all"))
                  @@ ("filter[deep_search]" :> JStr(IF deep_search THEN "true" ELSE "false"))
                  @@ ("page" :> JNum(page))
                  @@ ("per_page" :> JNum(per_page))))

\* How a client call ends for its caller.
CallReturned(value) == [kind |-> "return", value |-> value, exc |-> ""]
CallRaised(exc) == [kind |-> "raise", value |-> NoOut, exc |-> exc]
\* The exceptions a client call ends with: the error of _request, and the
\* parser's error on a 200 response that is not JSON.
ApiError == CallRaised("ProductiveAPIError")
ParseError == CallRaised("JSONDecodeError")

(***************************************************************************)
(* update_page (src/tools_write.py).                                       *)
(***************************************************************************)
\* A payload that names both fields whether they were given or not.
UpdatePageAttributesBoth(title, body) == JDict([title |-> title, body |-> body])

\* The attributes of the payload: the fields that are not None.
UpdatePageAttributes(title, body) ==
    LET given == [title |-> title, body |-> body] IN
    JDict([k \in {j \in {"title", "body"} : given[j] # JNull} |-> given[k]])

UpdatePagePayload(page_id, attributes) ==
    JDict([data |-> JDict([type |-> JStr("pages"), id |-> JStr(ToString(page_id)),
                           attributes |-> attributes])])

NoChangesMade == JDict([message |-> JStr("No changes made - no fields provided")])

(***************************************************************************)
(* quick_search (src/tools_read.py).                                       *)
(***************************************************************************)
\* int(record_id) for the record ids of this model; None is the ValueError.
IntOf(text) ==
    CASE text = "7" -> Some(7)
      [] text = "012" -> Some(12)
      [] text = "3" -> Some(3)
      [] OTHER -> None

\* The attributes of a search result, {} when it has none.
HitAttributes(item) == Get(item, "attributes", EmptyDict)

\* filtered_item before the hydration.
Row(item) ==
    LET attributes == HitAttributes(item)
        record_type == Get(attributes, "record_type", JStr(""))
        record_id == Get(attributes, "record_id", JStr(""))
    IN JDict([record_id |-> record_id,
              record_type |-> record_type,
              title |-> Get(attributes, "title", JStr("")),
              subtitle |-> Get(attributes, "subtitle", JStr("")),
              icon_url |-> Get(attributes, "icon_url", JNull),
              status |-> Get(attributes, "status", JStr("")),
              project_name |-> Get(Get(attributes, "meta", EmptyDict), "project_name", JStr("")),
              updated_at |-> Get(attributes, "updated_at", JStr("")),
              webapp_url |-> JStr("https://app.productive.io/27956-lineout/"
                                  \o Fmt(record_type) \o "s/" \o Fmt(record_id))])

\* if record_type == "task" and record_id
IsTaskHit(item) ==
    /\ Get(HitAttributes(item), "record_type", JStr("")) = JStr("task")
    /\ Truthy(Get(HitAttributes(item), "record_id", JStr("")))

\* The task id the hydration asks for, None when int(record_id) raises.
TaskIdOf(item) == IntOf(Fmt(Get(HitAttributes(item), "record_id", JStr(""))))

\* task_data and task_attrs of the hydration: {} when the parent is no dict.
TaskData(filtered_task) ==
    IF filtered_task.t = "dict" THEN Get(filtered_task, "data", EmptyDict) ELSE EmptyDict
TaskAttrs(task_data) ==
    IF task_data.t = "dict" THEN Get(task_data, "attributes", EmptyDict) ELSE EmptyDict

\* filtered_item with the workflow_status_name of the task, when it has one.
WithStatusName(row, workflow_status) ==
    IF Truthy(workflow_status) THEN Put(row, "workflow_status_name", workflow_status) ELSE row

\* filtered_item with the webapp_url of the task, when it has one.
WithCanonicalUrl(row, task_data) ==
    IF Contains(task_data, "webapp_url") THEN Put(row, "webapp_url", task_data.v["webapp_url"])
    ELSE row

\* filtered_item after the lines that read task_data; task_attrs.get raises
\* when the attributes are no dict, and the item stays as it was.
HydratedWith(row, task_data) ==
    IF TaskAttrs(task_data).t # "dict" THEN row
    ELSE WithCanonicalUrl(
             WithStatusName(row, Get(TaskAttrs(task_data), "workflow_status_name", JNull)),
             task_data)

\* filtered_item after the try block, given what filter_response returned.
HydratedFrom(row, filtered_task) ==
    IF filtered_task = Raise THEN row ELSE HydratedWith(row, TaskData(filtered_task))

\* filtered_item after the try block of the hydration, given how the call of
\* client.get_task ended: an exception of the call, of filter_response or of
\* the reading of its result leaves the item as it was.
Hydrated(item, outcome) ==
    IF outcome.kind = "raise" THEN Row(item)
    ELSE HydratedFrom(Row(item), filter_response(outcome.value).ret)

\* The for loop from item i on, with filtered_data = data, up to its next
\* await of client.get_task or to its end.
RECURSIVE Proceed(_, _, _)
Proceed(items, i, data) ==
    IF i > Len(items) THEN [at |-> "done", pos |-> i, rows |-> data]
    ELSE IF IsTaskHit(items[i]) /\ TaskIdOf(items[i]) # None
         THEN [at |-> "hydrating", pos |-> i, rows |-> data]
    ELSE Proceed(items, i + 1, Append(data, Row(items[i])))

\* A loop that ends at the first hydration whose call raised.
AfterHydrationAbort(items, i, data, outcome) ==
    IF outcome.kind = "raise" THEN [at |-> "done", pos |-> i, rows |-> data]
    ELSE Proceed(items, i + 1, Append(data, Hydrated(items[i], outcome)))

\* The loop after the await of client.get_task for item i ended with outcome:
\* the item is appended, hydrated or not, and the loop goes on.
AfterHydration(items, i, data, outcome) ==
    Proceed(items, i + 1, Append(data, Hydrated(items[i], outcome)))

\* search_types as quick_search uses it: the default when None was given.
SearchTypes(search_types) ==
    IF search_types = None THEN DefaultSearchTypes ELSE search_types[1]

\* What quick_search returns after the loop.
SearchReply(data) ==
    JDict([data |-> JList(data),
           meta |-> JDict([query |-> JStr(args.query),
                           search_types |-> JList([i \in 1..Len(args.search_types) |->
                                                      JStr(args.search_types[i])]),
                           deep_search |-> JBool(args.deep_search),
                           page |-> JNum(args.page),
                           per_page |-> JNum(args.per_page),
                           total_results |-> JNum(Len(data))])])

\* What quick_search returns from its except clauses; the meta of a
\* ProductiveAPIError has its status_code as well.
SearchError(exc) ==
    JDict([data |-> EmptyList,
           meta |-> IF exc = "ProductiveAPIError"
                    THEN JDict([error |-> JStr(exc), status_code |-> JNull,
                                query |-> JStr(args.query)])
                    ELSE JDict([error |-> JStr(exc), query |-> JStr(args.query)])])

(***************************************************************************)
(* The inputs of the tools and the replies of the upstream.                *)
(***************************************************************************)
\* The longest search result.
MaxResults == 3

\* The params callers give to get_tasks.
ParamsGiven ==
    {JNull, EmptyDict,
     JDict([include |-> JStr("project")]),
     JDict(("filter[project_id]" :> JStr("7")) @@ ("include" :> JStr("assignee,project"))),
     JDict(("page[size]" :> JNum(10)) @@ ("sort" :> JStr("-updated_at"))),
     JDict([include |-> JStr("workflow_status")])}

TaskIds == {7, 12}
PageIds == {3, 41}
\* title and body as update_page gets them: omitted, empty or a text.
TitlesGiven == {JNull, JStr(""), JStr("Plan")}
BodiesGiven == {JNull, JStr(""), JStr("<p>New</p>")}
Queries == {"login"}
SearchTypesGiven == {None, Some(<<"task", "page">>)}

\* A search result.
Hit(record_type, record_id, title) ==
    JDict([id |-> JStr(record_type \o "-" \o record_id), type |-> JStr("search_results"),
           attributes |-> JDict([record_type |-> JStr(record_type),
                                 record_id |-> JStr(record_id),
                                 title |-> JStr(title),
                                 meta |-> JDict([project_name |-> JStr("Site")])])])

Hits == {Hit("task", "7", "Fix login"), Hit("task", "012", "Count"), Hit("task", "", "Draft"),
         Hit("project", "3", "Site")}

\* How the search call ends.
SearchOutcomes ==
    {CallReturned(JDict([data |-> JList(items)])) : items \in SeqsUpTo(Hits, MaxResults)}
    \cup {CallReturned(JDict([meta |-> JDict([total_count |-> JNum(0)])])), ApiError, ParseError}

\* How a hydration call ends: with a task and its status, with a task
\* without attributes, with a document filter_response raises on, or with
\* an exception.
HydrationOutcomes ==
    {CallReturned(JDict([data |-> TaskFull, included |-> JList(<<StatusOpen>>)])),
     CallReturned(JDict([data |-> TaskNoAttributes])),
     CallReturned(JDict([data |-> ListTypeResource])),
     ApiError, ParseError}

\* How the call of get_tasks, get_task or update_page ends.
ClientOutcomes ==
    {CallReturned(JDict([data |-> PageFull])), ApiError, ParseError}

(***************************************************************************)
(* The tools as processes: one action per stretch of code between awaits.  *)
(***************************************************************************)
InitTools ==
    /\ ClientInit
    /\ CallsInit
    /\ calls = {}
    /\ upstream = "few"
    /\ SanitizerIdle
    /\ ToolsIdle

\* A caller calls client.get_tasks(params).
CallGetTasks(params) ==
    /\ tool = "none"
    /\ tool' = "get_tasks"
    /\ tpc' = "calling"
    /\ LET call == get_tasks(params) IN
         /\ args' = [params0 |-> params, params |-> call.arg]
         /\ sent' = Append(sent, call.request)
    /\ UNCHANGED <<found, pos, rows, reply, requestVars, sanVars>>

\* A caller calls client.get_task(task_id).
CallGetTask(task_id) ==
    /\ tool = "none"
    /\ tool' = "get_task"
    /\ tpc' = "calling"
    /\ args' = [task_id |-> task_id]
    /\ sent' = Append(sent, get_task(task_id))
    /\ UNCHANGED <<found, pos, rows, reply, requestVars, sanVars>>

\* update_page up to its await of client.update_page, or to its return when
\* no field was given.
UpdatePage(page_id, title, body) ==
    /\ tool = "none"
    /\ tool' = "update_page"
    /\ args' = [page_id |-> page_id, title |-> title, body |-> body]
    /\ LET attributes == UpdatePageAttributes(title, body) IN
         IF ~Truthy(attributes)
         THEN /\ reply' = NoChangesMade
              /\ tpc' = "done"
              /\ UNCHANGED sent
         ELSE /\ sent' = Append(sent, client_update_page(page_id,
                                          UpdatePagePayload(page_id, attributes)))
              /\ tpc' = "calling"
              /\ UNCHANGED reply
    /\ UNCHANGED <<found, pos, rows, requestVars, sanVars>>

\* The awaited client call of get_tasks, get_task or update_page ends: its
\* value is returned, a ProductiveAPIError of update_page goes to the error
\* handler, and any other exception leaves the operation.
Returns(outcome) ==
    /\ tpc = "calling"
    /\ IF outcome.kind = "return"
       THEN tpc' = "done" /\ reply' = outcome.value
       ELSE IF tool = "update_page" /\ outcome = ApiError
       THEN tpc' = "handled" /\ UNCHANGED reply
       ELSE tpc' = "raised" /\ UNCHANGED reply
    /\ UNCHANGED <<tool, args, sent, found, pos, rows, requestVars, sanVars>>

\* quick_search up to its await of client.quick_search.
QuickSearch(query, search_types, deep_search) ==
    /\ tool = "none"
    /\ tool' = "quick_search"
    /\ tpc' = "searching"
    /\ args' = [query |-> query, search_types |-> SearchTypes(search_types),
                deep_search |-> deep_search, page |-> 1, per_page |-> 50]
    /\ sent' = Append(sent, client_quick_search(query, Some(SearchTypes(search_types)),
                                                deep_search, 1, 50))
    /\ UNCHANGED <<found, pos, rows, reply, requestVars, sanVars>>

\* The loop of quick_search arrived at `next`: it awaits the get_task call of
\* the item it stopped at, or it is over and quick_search returns.
Arrive(next) ==
    /\ pos' = next.pos
    /\ rows' = next.rows
    /\ IF next.at = "hydrating"
       THEN /\ tpc' = "hydrating"
            /\ sent' = Append(sent, get_task(TaskIdOf(found'[next.pos])[1]))
            /\ UNCHANGED reply
       ELSE /\ tpc' = "done"
            /\ reply' = SearchReply(next.rows)
            /\ UNCHANGED sent

\* The search call ends: with a document, whose items the loop starts on, or
\* with an exception, which one of the except clauses turns into a reply.
SearchReturns(outcome) ==
    /\ tpc = "searching"
    /\ IF outcome.kind = "return"
       THEN /\ found' = Get(outcome.value, "data", EmptyList).v
            /\ \E next \in {Proceed(found', 1, <<>>)} : Arrive(next)
       ELSE /\ tpc' = "done"
            /\ reply' = SearchError(outcome.exc)
            /\ UNCHANGED <<found, pos, rows, sent>>
    /\ UNCHANGED <<tool, args, requestVars, sanVars>>

\* The get_task call of the item at pos ends, and the loop goes on.
HydrateReturns(outcome) ==
    /\ tpc = "hydrating"
    /\ UNCHANGED found
    /\ \E next \in {AfterHydration(found, pos, rows, outcome)} : Arrive(next)
    /\ UNCHANGED <<tool, args, requestVars, sanVars>>

NextTools ==
    \/ \E params \in ParamsGiven : CallGetTasks(params)
    \/ \E task_id \in TaskIds : CallGetTask(task_id)
    \/ \E page_id \in PageIds, title \in TitlesGiven, body \in BodiesGiven :
          UpdatePage(page_id, title, body)
    \/ \E outcome \in ClientOutcomes : Returns(outcome)
    \/ \E query \in Queries, search_types \in SearchTypesGiven, deep_search \in BOOLEAN :
          QuickSearch(query, search_types, deep_search)
    \/ \E outcome \in SearchOutcomes : SearchReturns(outcome)
    \/ \E outcome \in HydrationOutcomes : HydrateReturns(outcome)

SpecTools == InitTools /\ [][NextTools]_vars


(***************************************************************************)
(* Measures of a call's history.                                           *)
(***************************************************************************)
RequestIndexes(c) == {i \in 1..Len(events[c]) : events[c][i].e = "request"}
SleepIndexes(c) == {i \in 1..Len(events[c]) : events[c][i].e = "sleep"}
NumRequests(c) == Cardinality(RequestIndexes(c))
NumSleeps(c) == Cardinality(SleepIndexes(c))

RECURSIVE SumSleeps(_)
SumSleeps(evs) ==
    IF evs = <<>> THEN 0
    ELSE (IF Head(evs).e = "sleep" THEN Head(evs).n ELSE 0) + SumSleeps(Tail(evs))

\* An outcome status after which the specification allows a retry.
RetryableOut(st) == st = None \/ st[1] = 429 \/ st[1] >= 500
\* A 4xx status other than 429.
ClientErrorOut(st) == st # None /\ st[1] >= 400 /\ st[1] < 500 /\ st[1] # 429

Resolved(c) == pc[c] \in {"returned", "raised"}

(***************************************************************************)
(* Claims.                                                                 *)
(***************************************************************************)
\* C1: whatever mix of 429, 5xx and transport failures the attempts end in,
\* one _request call issues at most 4 HTTP attempts, and its attempt index
\* never exceeds 3.
C1_AtMostFourAttempts ==
    \A c \in CallIds :
        /\ attempt[c] <= 3
        /\ NumRequests(c) <= 4
        /\ \A i \in RequestIndexes(c) : events[c][i].n <= 3

\* A call that used all four attempts on a mix of 429, 5xx and transport
\* failures.
C1_Witness ==
    \E c \in CallIds :
        /\ pc[c] = "raised"
        /\ NumRequests(c) = 4
        /\ outs[c] = <<Some(429), None, Some(503), None>>

\* C2: no attempt follows a response with a 4xx status other than 429: the
\* call fails at that attempt, so such a status on the first attempt means
\* exactly one attempt and no backoff sleep.
C2_NoRetryAfterClientError ==
    \A c \in CallIds : \A i \in 1..Len(outs[c]) :
        ClientErrorOut(outs[c][i]) =>
            /\ i = Len(outs[c])
            /\ pc[c] = "raised"
            /\ NumRequests(c) = i
            /\ NumSleeps(c) = i - 1
            /\ events[c][Len(events[c])] = RequestEvent(i - 1)

\* A 422 on the third attempt, after two retries, ends the call there.
C2_Witness ==
    \E c \in CallIds :
        /\ pc[c] = "raised"
        /\ outs[c] = <<Some(500), None, Some(422)>>
        /\ NumRequests(c) = 3

\* C3: a call's requests and sleeps alternate, starting with the request of
\* attempt 0; the sleep after the failed attempt k lasts 1, 2, 4 seconds for
\* k = 0, 1, 2 whatever kind of failure it follows, and a call that returned
\* or raised ended on a request, not on a sleep.
C3_BackoffSchedule ==
    \A c \in CallIds :
        LET evs == events[c] IN
        /\ \A i \in 1..Len(evs) :
             IF i % 2 = 1
             THEN evs[i] = RequestEvent((i - 1) \div 2)
             ELSE /\ evs[i].e = "sleep"
                  /\ evs[i].n = (CASE evs[i - 1].n = 0 -> 1
                                   [] evs[i - 1].n = 1 -> 2
                                   [] evs[i - 1].n = 2 -> 4
                                   [] OTHER -> 0 - 1)
                  /\ RetryableOut(outs[c][i \div 2])
        /\ pc[c] = "sleeping" <=> (evs # <<>> /\ evs[Len(evs)].e = "sleep" /\ c \notin cancelled)
        /\ Resolved(c) /\ evs # <<>> => evs[Len(evs)].e = "request"

\* Three backoffs, after a transport failure, a 429 and a 500, then the end.
C3_Witness ==
    \E c \in CallIds :
        /\ Resolved(c)
        /\ outs[c][1] = None /\ outs[c][2] = Some(429) /\ outs[c][3] = Some(500)
        /\ events[c] = <<RequestEvent(0), SleepEvent(1), RequestEvent(1), SleepEvent(2),
                         RequestEvent(2), SleepEvent(4), RequestEvent(3)>>

\* C4: when the first k attempts (0 <= k <= 3) end in retryable outcomes and
\* attempt k+1 receives a 200 whose body is JSON, the call returns that
\* body's parsed value, raises nothing, and has slept 2^k - 1 seconds in
\* total; 500, 500, 500, 200 with {"data":[]} returns {"data":[]} after 7 s.
C4_SuccessAfterRetries ==
    \A c \in CallIds :
        LET n == Len(outs[c]) IN
        (/\ n >= 1
         /\ outs[c][n] = Some(200)
         /\ ParseJson(last[c].text).ok
         /\ \A i \in 1..(n - 1) : RetryableOut(outs[c][i]))
        =>
        /\ pc[c] = "returned"
        /\ result[c].kind = "return"
        /\ result[c].exc = NoExc
        /\ result[c].value.t = ParseJson(last[c].text).t
        /\ result[c].value.v = ParseJson(last[c].text).v
        /\ n <= 4
        /\ SumSleeps(events[c]) = (2 ^ (n - 1)) - 1
        /\ (outs[c] = <<Some(500), Some(500), Some(500), Some(200)>>
              /\ last[c].text = BodyEmptyData)
            => /\ result[c].value = [t |-> "object", v |-> [data |-> <<>>]]
               /\ SumSleeps(events[c]) = 7

\* 500, 500, 500, then 200 with {"data":[]}.
C4_Witness ==
    \E c \in CallIds :
        /\ pc[c] = "returned"
        /\ outs[c] = <<Some(500), Some(500), Some(500), Some(200)>>
        /\ last[c] = Response(200, BodyEmptyData)
        /\ result[c] = Returned([t |-> "object", v |-> [data |-> <<>>]])

\* C5: a call that ends, for whatever cause (non-retryable status, exhausted
\* retries, exhausted transport failures, a 200 whose body is not JSON),
\* either returned a JSON document or raised ProductiveAPIError.
C5_OnlyTypedErrors ==
    \A c \in CallIds :
        Resolved(c) =>
            \/ result[c].kind = "return" /\ result[c].value.t \in {"object", "array"}
            \/ result[c].kind = "raise" /\ result[c].exc.type = "ProductiveAPIError"

\* C6: a 401 response makes the call raise status_code 401 with error_code
\* UNAUTHORIZED, and a 404 response status_code 404 with NOT_FOUND, on every
\* attempt and for every body.
C6_FixedErrors ==
    \A c \in CallIds :
        /\ (last[c].kind = "response" /\ last[c].status_code = 401) =>
              /\ pc[c] = "raised"
              /\ result[c].exc.type = "ProductiveAPIError"
              /\ result[c].exc.status_code = Some(401)
              /\ result[c].exc.error_code = Some("UNAUTHORIZED")
        /\ (last[c].kind = "response" /\ last[c].status_code = 404) =>
              /\ pc[c] = "raised"
              /\ result[c].exc.type = "ProductiveAPIError"
              /\ result[c].exc.status_code = Some(404)
              /\ result[c].exc.error_code = Some("NOT_FOUND")

\* A 401 on the third attempt whose body names another error code.
C6_Witness ==
    \E c \in CallIds :
        /\ Len(outs[c]) = 3
        /\ last[c] = Response(401, BodyBoth)
        /\ result[c].exc.error_code = Some("UNAUTHORIZED")

\* The calls that failed on a 4xx or 5xx response other than 401 and 404.
FailedOnResponse(c) ==
    /\ pc[c] = "raised"
    /\ last[c].kind = "response"
    /\ last[c].status_code >= 400
    /\ last[c].status_code \notin {401, 404}

StatusDefault(status) == IF status = 429 THEN "Rate limit exceeded" ELSE "Server error"
RawBodyMessage(o) == "HTTP " \o ToString(o.status_code) \o ": " \o o.text

\* The error code every body gives, by the claim and by the code alike.
ClaimedErrorCode(o) ==
    CASE o.text = BodyBoth -> "E_QUOTA"
      [] o.text = BodyCode -> "E_INTERNAL"
      [] OTHER -> "UNKNOWN"

\* C7 as stated: a call that fails on a response other than 401/404 (429 or
\* 5xx on the fourth attempt, another 4xx on any attempt) raises an error
\* with that response's status; every JSON body without `message` gives the
\* default message of the status, every JSON body without `errorCode` gives
\* UNKNOWN, and a body that cannot be parsed gives
\* "HTTP {status}: {raw body text}" with UNKNOWN.
C7_ErrorFromBodyAsStated ==
    \A c \in CallIds :
        FailedOnResponse(c) =>
            /\ (last[c].status_code = 429 \/ last[c].status_code >= 500) => Len(outs[c]) = 4
            /\ result[c].exc.type = "ProductiveAPIError"
            /\ result[c].exc.status_code = Some(last[c].status_code)
            /\ result[c].exc.error_code = Some(ClaimedErrorCode(last[c]))
            /\ result[c].exc.message =
                 (CASE last[c].text = BodyBoth -> "Quota exhausted"
                    [] last[c].text = BodyMessage -> "Validation failed"
                    [] last[c].text \in {BodyEmptyData, BodyOneTask, BodyCode, BodyArray}
                         -> StatusDefault(last[c].status_code)
                    [] OTHER -> RawBodyMessage(last[c]))

\* C7 amended: as stated, but the defaults apply to a body that is a JSON
\* object; a body that cannot be parsed, or whose JSON value is not an
\* object, gives "HTTP {status}: {raw body text}" with error code UNKNOWN.
C7_ErrorFromBody ==
    \A c \in CallIds :
        FailedOnResponse(c) =>
            /\ (last[c].status_code = 429 \/ last[c].status_code >= 500) => Len(outs[c]) = 4
            /\ result[c].exc.type = "ProductiveAPIError"
            /\ result[c].exc.status_code = Some(last[c].status_code)
            /\ result[c].exc.error_code = Some(ClaimedErrorCode(last[c]))
            /\ result[c].exc.message =
                 (CASE last[c].text = BodyBoth -> "Quota exhausted"
                    [] last[c].text = BodyMessage -> "Validation failed"
                    [] last[c].text \in {BodyEmptyData, BodyOneTask, BodyCode}
                         -> StatusDefault(last[c].status_code)
                    [] OTHER -> RawBodyMessage(last[c]))

\* A 429 on the fourth attempt whose JSON object body has no message.
C7_Witness ==
    \E c \in CallIds :
        /\ FailedOnResponse(c)
        /\ Len(outs[c]) = 4
        /\ last[c] = Response(429, BodyCode)
        /\ result[c].exc.message = "Rate limit exceeded"
        /\ result[c].exc.error_code = Some("E_INTERNAL")

\* C8: a transport failure on attempt k < 3 is followed by the backoff sleep
\* of 2^k seconds, k counting every earlier attempt whatever its outcome; a
\* transport failure on the fourth attempt makes the call raise
\* ProductiveAPIError with the transport error's text in the message, no
\* status code and no error code.
C8_TransportFailures ==
    \A c \in CallIds :
        last[c].kind = "transport" =>
            LET k == Len(outs[c]) - 1 IN
            /\ events[c][2 * k + 1] = RequestEvent(k)
            /\ IF k < 3
               THEN /\ Len(events[c]) >= 2 * k + 2
                    /\ events[c][2 * k + 2] = SleepEvent(2 ^ k)
                    /\ pc[c] \in {"sleeping", "awaiting", "cancelled"}
               ELSE /\ pc[c] = "raised"
                    /\ Len(events[c]) = 2 * k + 1
                    /\ result[c].exc.type = "ProductiveAPIError"
                    /\ result[c].exc.message = "Request failed: " \o last[c].text
                    /\ result[c].exc.status_code = None
                    /\ result[c].exc.error_code = None

\* Transport failures and 5xx/429 responses share the counter: the fourth
\* attempt fails in transport after 500, a transport failure and 429.
C8_Witness ==
    \E c \in CallIds :
        /\ pc[c] = "raised"
        /\ outs[c] = <<Some(500), None, Some(429), None>>
        /\ last[c] = TransportFailure("Read timed out")
        /\ result[c].exc.message = "Request failed: Read timed out"

\* C9: once the calling context cancelled a call (during the request or the
\* backoff sleep), the call has ended with CancelledError, not with
\* ProductiveAPIError, and neither the cancelling step nor any later step
\* issues a request, starts a sleep or counts an outcome or attempt for it.
C9_CancellationPropagates ==
    /\ [](\A c \in cancelled :
            /\ pc[c] = "cancelled"
            /\ result[c] = Raised(CancelledError))
    /\ [][\A c \in CallIds :
            c \in cancelled' =>
                /\ events'[c] = events[c]
                /\ outs'[c] = outs[c]
                /\ attempt'[c] = attempt[c]]_vars

\* A call cancelled during its second backoff sleep.
C9_Witness ==
    \E c \in cancelled :
        /\ Len(outs[c]) = 2
        /\ events[c][Len(events[c])] = SleepEvent(2)
        /\ pc[c] = "cancelled"

\* A call cancelled while its request was in flight.
C9_WitnessInFlight ==
    \E c \in cancelled :
        /\ Len(outs[c]) = 1
        /\ events[c][Len(events[c])] = RequestEvent(1)

\* C10: with several calls on the shared client, max_retries and retry_delay
\* keep their initial values, and each call's requests and sleeps follow
\* from its own outcomes alone: its attempts count from 0, its k-th backoff
\* is 2^k seconds, and it ends on a retryable outcome only when that was the
\* outcome of its own fourth attempt.
C10_RetryStatePerCall ==
    /\ max_retries = 3
    /\ retry_delay = 1
    /\ \A c \in CallIds :
        LET evs == events[c]
            n == Len(outs[c]) IN
        /\ pc[c] = "idle" => evs = <<>> /\ n = 0
        /\ \A i \in 1..Len(evs) :
             evs[i] = IF i % 2 = 1 THEN RequestEvent((i - 1) \div 2)
                      ELSE SleepEvent(2 ^ ((i \div 2) - 1))
        /\ pc[c] # "idle" => Len(evs) \in {2 * n - 1, 2 * n, 2 * n + 1}
        /\ (n >= 1 /\ RetryableOut(outs[c][n]) /\ n < 4) => pc[c] \notin {"returned", "raised"}
        /\ (n >= 1 /\ ~RetryableOut(outs[c][n])) => Resolved(c)
        /\ n = 4 => Resolved(c)
        /\ n <= 4

\* Two calls that each used their four attempts, ending differently.
C10_Witness ==
    /\ pc[1] = "raised" /\ Len(outs[1]) = 4 /\ last[1].kind = "response"
    /\ pc[2] = "raised" /\ Len(outs[2]) = 4 /\ last[2].kind = "transport"

\* A call on its fourth attempt beside a call that exhausted its retries.
C10_WitnessAfterExhaustion ==
    /\ pc[1] = "raised" /\ Len(outs[1]) = 4
    /\ pc[2] = "awaiting" /\ attempt[2] = 3

(***************************************************************************)
(* Claims about the sanitizer.                                             *)
(***************************************************************************)
\* An entry point returned a value, and the caller has not touched it since.
Sanitized == view # "none" /\ out # Raise /\ ~filled
\* The entry point `name` returned a value for a document.
FilteredBy(name) == Sanitized /\ view = name /\ doc0.t = "dict"
\* One of the three response filters returned a value for a document.
Filtered == Sanitized /\ view # "prune" /\ doc0.t = "dict"

\* null, an empty string, an empty mapping or an empty sequence.
NullOrEmpty(x) == x \in {JNull, JStr(""), JDict(<<>>), JList(<<>>)}

\* The values directly inside x: the entries of a mapping, the elements of a sequence.
Children(x) ==
    IF x.t = "dict" THEN {x.v[k] : k \in DOMAIN x.v}
    ELSE IF x.t = "list" THEN {x.v[i] : i \in 1..Len(x.v)}
    ELSE {}

\* Some mapping entry or sequence element inside x, at any depth, is null or empty.
RECURSIVE HasEmptyInside(_)
HasEmptyInside(x) == \E c \in Children(x) : NullOrEmpty(c) \/ HasEmptyInside(c)

\* Some mapping inside x, at any depth (x included), has the key k.
RECURSIVE HasKey(_, _)
HasKey(x, k) == (x.t = "dict" /\ k \in DOMAIN x.v) \/ \E c \in Children(x) : HasKey(c, k)

\* The resource objects at the key `key` of a document: the single object, or
\* the mappings of the sequence.
ResourcesAt(x, key) ==
    IF x.t = "dict" /\ key \in DOMAIN x.v
    THEN {r \in {x.v[key]} \cup Children(x.v[key]) :
            r.t = "dict" /\ (x.v[key].t = "dict" => r = x.v[key])}
    ELSE {}

\* C11: filter_response is idempotent: filtering what filter_response
\* returned gives that same document again.
C11_Idempotent == (again # NoOut /\ ~filled) => again = out

\* C12: whatever the deep-prune pass or an entry point built on it returns,
\* no mapping entry and no sequence element of it, at any depth, is null, an
\* empty string, an empty mapping or an empty sequence; a resource whose only
\* attribute is on its type's deny-list comes out without `attributes`.
C12_NothingEmptyLeft == (Sanitized /\ (view = "prune" \/ doc0.t = "dict")) => ~HasEmptyInside(out)

DenyList(type) ==
    CASE type = JStr("tasks") -> {"creation_method_id", "email_key", "placement"}
      [] type = JStr("projects") ->
           {"sample_data", "template", "time_on_tasks", "project_color_id", "duplication_status",
            "project_type_id", "preferences", "number"}
      [] type \in {JStr("pages"), JStr("page")} ->
           {"preferences", "cover_image_meta", "custom_fields", "version_number", "position"}
      [] type = JStr("attachments") -> {"attachable_type", "attachable_id"}
      [] OTHER -> {}

AttributeKeys(r) ==
    IF "attributes" \in DOMAIN r.v /\ r.v["attributes"].t = "dict"
    THEN DOMAIN r.v["attributes"].v ELSE {}

\* C14: in what an entry point returns, no resource object in data or in
\* included has an attribute key that is on the deny-list of its type; and
\* the attributes of a resource at data whose type has no deny-list are not
\* filtered by name: each one whose value is not null or empty is still there.
C14_DenyListed ==
    Sanitized /\ doc0.t = "dict" =>
        /\ \A r \in ResourcesAt(out, "data") \cup ResourcesAt(out, "included") :
              "type" \in DOMAIN r.v => AttributeKeys(r) \cap DenyList(r.v["type"]) = {}
        /\ (view \in {"prune", "default"} /\ "data" \in DOMAIN doc0.v /\ doc0.v["data"].t = "dict") =>
              LET r == doc0.v["data"] IN
              (DenyList(Get(r, "type", JNull)) = {} /\ "attributes" \in DOMAIN r.v
                 /\ r.v["attributes"].t = "dict") =>
                 \A k \in DOMAIN r.v["attributes"].v :
                    ~NullOrEmpty(r.v["attributes"].v[k]) =>
                       k \in AttributeKeys(out.v["data"])

\* A task with deny-listed attributes came with an included project that has
\* some too, or a person came whose attributes carry names that tasks and
\* projects deny.
C14_Witness ==
    /\ Sanitized
    /\ view = "default"
    /\ doc0.t = "dict"
    /\ "data" \in DOMAIN doc0.v
    /\ \/ /\ doc0.v["data"] = TaskFull
          /\ Get(doc0, "included", JNull) = JList(<<JStr("x"), ProjectFull, StatusDone, StatusOpen>>)
          /\ Len(out.v["included"].v) = 4
       \/ /\ doc0.v["data"] = PersonFull
          /\ {"email_key", "placement", "number"} \subseteq AttributeKeys(out.v["data"])

\* Generic pruning leaves nothing of x: x is null or empty, or a mapping or
\* sequence all of whose parts, `links` entries aside, come to nothing.
RECURSIVE Hollow(_)
Hollow(x) ==
    CASE x.t = "dict" -> \A k \in DOMAIN x.v \ {"links"} : Hollow(x.v[k])
      [] x.t = "list" -> \A i \in 1..Len(x.v) : Hollow(x.v[i])
      [] OTHER -> NullOrEmpty(x)

\* p is a mapping with a mapping under the key `meta`.
HasMeta(p) == p.t = "dict" /\ "meta" \in DOMAIN p.v /\ p.v["meta"].t = "dict"

\* The keys the claim keeps of a meta mapping: not `settings`, not `included`
\* when it is false, and, with the generic pruning, no `links` and no entry
\* that comes to nothing.
MetaKept(m) ==
    {k \in DOMAIN m.v \ {"settings", "links"} :
        ~Hollow(m.v[k]) /\ ~(k = "included" /\ m.v[k] = JBool(FALSE))}

\* The parent pOut (NoOut when it is gone itself) has of the meta of pIn what
\* the claim keeps, with the values that had nothing to prune unchanged.
MetaAsClaimed(pIn, pOut) ==
    LET m == pIn.v["meta"] IN
    IF MetaKept(m) = {} THEN pOut = NoOut \/ "meta" \notin DOMAIN pOut.v
    ELSE /\ pOut # NoOut
         /\ HasMeta(pOut)
         /\ DOMAIN pOut.v["meta"].v = MetaKept(m)
         /\ \A k \in MetaKept(m) :
               m.v[k].t \notin {"dict", "list"} => pOut.v["meta"].v[k] = m.v[k]

\* C15: of a mapping under a key `meta`, at the top of a document or on a
\* resource, the output drops `included` when it is exactly false and keeps it
\* when it is true, always drops `settings`, keeps every other entry that the
\* generic pruning leaves (non-empty, not `links`), and has no `meta` key
\* when nothing remains.
C15_MetaCleaned ==
    (Sanitized /\ doc0.t = "dict") =>
        /\ HasMeta(doc0) => MetaAsClaimed(doc0, out)
        /\ (view \in {"prune", "default"} /\ "data" \in DOMAIN doc0.v /\ HasMeta(doc0.v["data"])) =>
              MetaAsClaimed(doc0.v["data"], Get(out, "data", NoOut))

\* The task-list filter was given a meta with included true, settings, links
\* and a page entry, and returned included and page.
C15_Witness ==
    /\ FilteredBy("task_list")
    /\ HasMeta(doc0)
    /\ {"included", "settings", "links", "page"} \subseteq DOMAIN doc0.v["meta"].v
    /\ HasMeta(out)
    /\ out.v["meta"].v["included"] = JBool(TRUE)
    /\ DOMAIN out.v["meta"].v = {"included", "page"}

\* A meta with nothing but included false and settings is gone from the output.
C15_WitnessOmitted ==
    /\ FilteredBy("default")
    /\ HasMeta(doc0)
    /\ DOMAIN doc0.v["meta"].v = {"included", "settings"}
    /\ "data" \in DOMAIN out.v
    /\ "meta" \notin DOMAIN out.v

\* The meta of a resource at data is cleaned as the one at the top is.
C15_WitnessOnResource ==
    /\ FilteredBy("default")
    /\ Get(doc0, "data", JNull) = PersonFull
    /\ out.v["data"].v["meta"] = JDict([role |-> JStr("admin")])

\* https://app.productive.io/{organization}/{type}/{id}
ExpectedUrl(type, id) ==
    JStr("https://app.productive.io/" \o OrgId \o "/" \o Fmt(type) \o "/" \o Fmt(id))

\* C16: in what filter_response returns, every resource object at data that
\* has both type and id carries webapp_url, the URL of that type and id within
\* the organization; one that lacks type or id carries none; and the type and
\* id of an output resource are those of a resource of the input.
C16_WebappUrl ==
    FilteredBy("default") =>
        \A r \in ResourcesAt(out, "data") :
            /\ IF {"type", "id"} \subseteq DOMAIN r.v
               THEN /\ "webapp_url" \in DOMAIN r.v
                    /\ r.v["webapp_url"] = ExpectedUrl(r.v["type"], r.v["id"])
               ELSE "webapp_url" \notin DOMAIN r.v
            /\ \E r0 \in ResourcesAt(doc0, "data") :
                  \A k \in {"type", "id"} \cap DOMAIN r.v : k \in DOMAIN r0.v /\ r0.v[k] = r.v[k]

\* A task and a page came in one sequence, and each has its URL.
C16_Witness ==
    /\ FilteredBy("default")
    /\ Get(doc0, "data", JNull) = JList(<<TaskFull, PageFull>>)
    /\ out.v["data"].v[1].v["webapp_url"] = JStr("https://app.productive.io/4321/tasks/101")
    /\ out.v["data"].v[2].v["webapp_url"] = JStr("https://app.productive.io/4321/pages/3")

\* A task without id and a resource without type came, and have no URL.
C16_WitnessWithout ==
    /\ FilteredBy("default")
    /\ Get(doc0, "data", JNull) \in {TaskNoId, NoTypeResource}
    /\ "data" \in DOMAIN out.v
    /\ "webapp_url" \notin DOMAIN out.v["data"].v

\* The item is still there after the pruning.
Survives(x) == ~NullOrEmpty(remove_null_and_empty(x))

\* The resources at data of the input, each with what became of it in the
\* output: the single object, or the items of the sequence that survive.
DataPairs ==
    IF "data" \notin DOMAIN doc0.v \/ "data" \notin DOMAIN out.v THEN {}
    ELSE IF doc0.v["data"].t = "dict" THEN {<<doc0.v["data"], out.v["data"]>>}
    ELSE IF doc0.v["data"].t = "list"
    THEN LET kept == SelectSeq(doc0.v["data"].v, Survives) IN
         {<<kept[i], out.v["data"].v[i]>> : i \in 1..Len(kept)}
    ELSE {}

TaskPairs == {p \in DataPairs : p[1].t = "dict" /\ Get(p[1], "type", JNull) = JStr("tasks")}

\* relationships.workflow_status.data.id of a task, NoOut when there is none.
StatusIdOf(task) ==
    LET relationships == Get(task, "relationships", NoOut)
        rel == IF relationships.t = "dict" THEN Get(relationships, "workflow_status", NoOut) ELSE NoOut
        data == IF rel.t = "dict" THEN Get(rel, "data", NoOut) ELSE NoOut
    IN IF data.t = "dict" THEN Get(data, "id", NoOut) ELSE NoOut

\* The places in `included` of the input of the workflow statuses with the
\* id the task refers to.
MatchingStatuses(task) ==
    LET included == Get(doc0, "included", NoOut) IN
    IF included.t # "list" \/ StatusIdOf(task) = NoOut THEN {}
    ELSE {i \in 1..Len(included.v) :
            /\ included.v[i].t = "dict"
            /\ Get(included.v[i], "type", NoOut) = JStr("workflow_statuses")
            /\ Get(included.v[i], "id", NoOut) = StatusIdOf(task)}

\* attributes.name of the i-th included resource, NoOut when it has none.
StatusName(i) ==
    LET attributes == Get(doc0.v["included"].v[i], "attributes", NoOut) IN
    IF attributes.t = "dict" THEN Get(attributes, "name", NoOut) ELSE NoOut

NonEmptyString(x) == x.t = "str" /\ x.v # ""

\* C17 as stated: in filter_response, a task at data that refers to a
\* workflow status among the included resources of the input, with one
\* non-empty name, has that name as attributes.workflow_status_name in the
\* output; a task that refers to none has no workflow_status_name.
C17_NameCopiedAsStated ==
    FilteredBy("default") =>
        \A p \in TaskPairs :
            LET names == {StatusName(i) : i \in MatchingStatuses(p[1])} IN
            /\ (\E n \in names : names = {n} /\ NonEmptyString(n)) =>
                  /\ "workflow_status_name" \in AttributeKeys(p[2])
                  /\ p[2].v["attributes"].v["workflow_status_name"] \in names
            /\ names = {} => "workflow_status_name" \notin AttributeKeys(p[2])

\* C17: in filter_response, a task at data that still has attributes after
\* the pruning, and that refers to a workflow status among the included
\* resources of the input, has as attributes.workflow_status_name the name of
\* the first such resource when that name is a non-empty string; in every
\* other case (no attributes left, no such resource, no name or an empty one)
\* the output task has no workflow_status_name.
C17_NameCopied ==
    FilteredBy("default") =>
        \A p \in TaskPairs :
            LET matching == MatchingStatuses(p[1])
                name == IF matching = {} THEN NoOut
                        ELSE StatusName(CHOOSE i \in matching : \A j \in matching : i <= j)
            IN IF NonEmptyString(name) /\ "attributes" \in DOMAIN p[2].v
               THEN /\ "workflow_status_name" \in AttributeKeys(p[2])
                    /\ p[2].v["attributes"].v["workflow_status_name"] = name
               ELSE "workflow_status_name" \notin AttributeKeys(p[2])

\* A task referring to status 5 came with the status named Open, and has the name.
C17_Witness ==
    /\ FilteredBy("default")
    /\ Get(doc0, "data", JNull) = TaskFull
    /\ Get(doc0, "included", JNull) = JList(<<StatusOpen>>)
    /\ out.v["data"].v["attributes"].v["workflow_status_name"] = JStr("Open")

\* A task without attributes referring to status 5 came with the status
\* named Open, and has neither attributes nor the name.
C17_WitnessNoAttributes ==
    /\ FilteredBy("default")
    /\ Get(doc0, "data", JNull) \in {TaskNoAttributes, TaskNullAttributes}
    /\ Get(doc0, "included", JNull) = JList(<<StatusOpen>>)
    /\ "attributes" \notin DOMAIN out.v["data"].v

\* C18: the sanitizer never raises: whatever value remove_null_and_empty or
\* one of the three filters is given, it returns a value; and a list filter
\* returns a value that is no mapping as it is.
C18_NeverRaises ==
    (view # "none" /\ ~filled) =>
        /\ out # Raise
        /\ (view \in {"task_list", "page_list"} /\ doc0.t # "dict") => out = doc0

\* C19: no entry point changes the document it is given: after it returned,
\* and after the caller filtered the result again or filled in its time
\* fields, the caller's document equals what it was before the call.
C19_InputUnchanged == doc = doc0

\* The task-list filter returned a meta without the settings of the input's
\* meta, which still has them.
C19_Witness ==
    /\ FilteredBy("task_list")
    /\ HasMeta(doc0)
    /\ "settings" \in DOMAIN doc0.v["meta"].v
    /\ HasMeta(out)
    /\ "settings" \notin DOMAIN out.v["meta"].v
    /\ "settings" \in DOMAIN doc.v["meta"].v

\* get_task filled in worked_time in what filter_response returned for a task
\* without it, and the input is as it was.
C19_WitnessFilled ==
    /\ filled
    /\ doc0.t = "dict"
    /\ Get(doc0, "data", JNull) = TaskNumericId
    /\ out.v["data"].v["attributes"].v["worked_time"] = JNum(0)
    /\ doc = doc0

\* The page-list filter returned a page without the body of the input's
\* page, which still has it.
C19_WitnessPage ==
    /\ FilteredBy("page_list")
    /\ Get(doc0, "data", JNull) = JList(<<PageFull>>)
    /\ "body" \notin AttributeKeys(out.v["data"].v[1])
    /\ "body" \in AttributeKeys(doc.v["data"].v[1])

\* The attribute names the claim allows in a task of a task list.
AllowList ==
    {"title", "task_number", "closed", "created_at", "updated_at", "initial_estimate",
     "remaining_time", "worked_time", "billable_time", "closed_at", "type_id", "private",
     "workflow_status_name"}

C21_PageListItems ==
    FilteredBy("page_list") =>
        \A p \in DataPairs :
            (p[2].t = "dict" /\ Get(p[2], "type", JNull) = JStr("pages")) =>
                /\ DOMAIN p[2].v \subseteq {"id", "type", "attributes", "webapp_url"}
                /\ "body" \notin AttributeKeys(p[2])
                /\ \A k \in AttributeKeys(p[1]) \ ({"body"} \cup DenyList(JStr("pages"))) :
                      ~NullOrEmpty(p[1].v["attributes"].v[k]) =>
                         /\ k \in AttributeKeys(p[2])
                         /\ p[2].v["attributes"].v[k] = p[1].v["attributes"].v[k]

\* A page with a body, deny-listed attributes and relationships came in a
\* page list after a task, and what is left of it is its title.
C21_Witness ==
    /\ FilteredBy("page_list")
    /\ Get(doc0, "data", JNull) = JList(<<TaskFull, PageFull>>)
    /\ out.v["data"].v[2] =
         JDict([id |-> JStr("3"), type |-> JStr("pages"),
                attributes |-> JDict([title |-> JStr("Plan")]),
                webapp_url |-> JStr("https://app.productive.io/4321/pages/3")])

\* A page whose body is a mapping came, and the body is gone as well.
C21_WitnessMapBody ==
    /\ FilteredBy("page_list")
    /\ Get(doc0, "data", JNull) = JList(<<PageMapBody>>)
    /\ out.v["data"].v[1].v["attributes"] = JDict([title |-> JStr("Map")])

\* A response with one task whose attributes are a mapping.
TaskResponse(response) ==
    /\ response.t = "dict"
    /\ Get(response, "data", JNull).t = "dict"
    /\ Get(response.v["data"], "type", JNull) = JStr("tasks")
    /\ Get(response.v["data"], "attributes", JNull).t = "dict"

\* The value of a time field as the claim has it: the upstream value when
\* it is there and not null, and 0 otherwise.
FilledValue(response, field) ==
    LET upstream_value == Get(response.v["data"].v["attributes"], field, JNull)
    IN IF upstream_value = JNull THEN JNum(0) ELSE upstream_value

\* C22: for every task response that get_task receives, whatever attributes
\* the task carries, data.attributes of what get_task returns holds
\* initial_estimate, worked_time, billable_time and remaining_time, each with
\* the upstream value when that is present and not null, and 0 otherwise.
C22_TimeFieldsFilled ==
    (view = "default" /\ filled /\ out # Raise /\ TaskResponse(doc0)) =>
        /\ Get(Get(out, "data", JNull), "attributes", JNull).t = "dict"
        /\ \A field \in TimeFields :
              Get(out.v["data"].v["attributes"], field, NoOut) = FilledValue(doc0, field)

\* The top-level key k of the input has a value that does not prune to
\* nothing (for `meta`, with the cleaning of meta objects).
TopKept(k) == k \in Keys(remove_null_and_empty(Only(doc0, {k})))

\* The top-level keys of the input, `links` aside, that do not prune to nothing.
TopKeys == {k \in DOMAIN doc0.v \ {"links"} : TopKept(k)}

\* C23 as stated: every response filter returns a document that has no
\* top-level key the input has not, and has every top-level key of the input
\* other than `links` whose value does not prune to empty.
C23_SameKeysAsStated ==
    Filtered =>
        /\ DOMAIN out.v \subseteq DOMAIN doc0.v
        /\ TopKeys \subseteq DOMAIN out.v

\* C23, amended: no response filter adds a top-level key; filter_response
\* returns exactly the top-level keys of the input other than `links` whose
\* value does not prune to empty, and the two list filters return of those
\* keys only `data`, when it is a sequence, and `meta`.
C23_TopLevelKeys ==
    Filtered =>
        /\ DOMAIN out.v \subseteq DOMAIN doc0.v
        /\ view = "default" => DOMAIN out.v = TopKeys
        /\ view \in {"task_list", "page_list"} =>
              DOMAIN out.v = {k \in TopKeys \cap {"data", "meta"} :
                                 k = "data" => doc0.v["data"].t = "list"}

\* A task list came with included and meta, and data and meta are returned.
C23_Witness ==
    /\ FilteredBy("task_list")
    /\ DOMAIN doc0.v = {"data", "included", "meta"}
    /\ TopKeys = {"data", "included", "meta"}
    /\ DOMAIN out.v = {"data", "meta"}

\* filter_response was given data, included, meta and links, or the first
\* three, and returned data, included and meta.
C23_WitnessDefault ==
    /\ FilteredBy("default")
    /\ TopKeys = {"data", "included", "meta"}
    /\ DOMAIN out.v = {"data", "included", "meta"}

\* A list filter was given one resource as data and returned nothing of it.
C23_WitnessSingle ==
    /\ FilteredBy("page_list")
    /\ Get(doc0, "data", JNull) = PageFull
    /\ "data" \notin DOMAIN out.v

\* Some mapping inside x, at any depth, has a mapping under the key
\* `relationships` with an `organization` entry.
RECURSIVE HasOrganizationRelationship(_)
HasOrganizationRelationship(x) ==
    \/ /\ x.t = "dict"
       /\ "relationships" \in DOMAIN x.v
       /\ x.v["relationships"].t = "dict"
       /\ "organization" \in DOMAIN x.v["relationships"].v
    \/ \E c \in Children(x) : HasOrganizationRelationship(c)

\* The relationships of the resource are a mapping with `organization` alone.
OnlyOrganization(resource) ==
    /\ resource.t = "dict"
    /\ Get(resource, "relationships", JNull).t = "dict"
    /\ DOMAIN resource.v["relationships"].v = {"organization"}

\* C24: in what the three response filters return, no mapping under a key
\* named `relationships`, at any depth and for any resource type, has an
\* `organization` entry, and a resource whose relationships held only
\* `organization` has no relationships in the output.
C24_NoOrganization ==
    Filtered =>
        /\ ~HasOrganizationRelationship(out)
        /\ \A p \in DataPairs :
              OnlyOrganization(p[1]) => p[2].t = "dict" /\ "relationships" \notin DOMAIN p[2].v

\* A task with organization among its relationships went through
\* filter_response and kept the other relationships; a page whose only
\* relationship was organization went through the page-list filter.
C24_Witness ==
    /\ Filtered
    /\ \/ /\ view = "default"
          /\ Get(doc0, "data", JNull) = TaskFull
          /\ DOMAIN out.v["data"].v["relationships"].v = {"workflow_status", "project"}
       \/ /\ view = "page_list"
          /\ Get(doc0, "data", JNull) = JList(<<PageFull>>)
          /\ DOMAIN out.v["data"].v[1].v = {"id", "type", "attributes", "webapp_url"}

\* A page whose only relationship was organization went through
\* filter_response and has no relationships.
C24_WitnessOnly ==
    /\ FilteredBy("default")
    /\ Get(doc0, "data", JNull) = PageFull
    /\ HasOrganizationRelationship(doc0)
    /\ "relationships" \notin DOMAIN out.v["data"].v

\* The text of a string of this model with its markup tags removed.
TagsRemoved(text) ==
    CASE text = "<p>Hello <b>world</b></p>" -> "Hello world"
      [] text = "<p></p>" -> ""
      [] text = "<h1>Plan</h1>" -> "Plan"
      [] OTHER -> text

\* The free-text fields the claim names for a resource type.
FreeTextFields(type) ==
    CASE type = JStr("tasks") -> {"description"}
      [] type = JStr("comments") -> {"body"}
      [] type = JStr("todos") -> {"description"}
      [] OTHER -> {}

\* The resources at data with their attributes before and after
\* remove_null_and_empty or filter_response.
AttributePairs ==
    IF (FilteredBy("prune") \/ FilteredBy("default"))
    THEN {p \in DataPairs : /\ p[1].t = "dict" /\ Get(p[1], "attributes", JNull).t = "dict"
                            /\ p[2].t = "dict" /\ Get(p[2], "attributes", JNull).t = "dict"}
    ELSE {}

\* C25: the attribute filter replaces tasks.description, comments.body and
\* todos.description by the text with all markup tags removed when and only
\* when the value is a string, and leaves every other attribute it keeps, and
\* a value of those fields that is no string, with its value.
C25_HtmlStripped ==
    \A p \in AttributePairs :
        \A k \in AttributeKeys(p[2]) \cap AttributeKeys(p[1]) :
            LET before == p[1].v["attributes"].v[k]
                after == p[2].v["attributes"].v[k]
            IN IF k \in FreeTextFields(Get(p[1], "type", JNull)) /\ before.t = "str"
               THEN after = JStr(TagsRemoved(before.v))
               ELSE after = before

\* The last outcome of call c is a response whose status is not 200, not 429
\* and below 500.
OtherStatus(c) ==
    /\ last[c].kind = "response"
    /\ last[c].status_code \notin {200, 429}
    /\ last[c].status_code < 500

\* C28: _request returns only when the last response it received has status
\* 200; a response with any other status below 500 that is not 429 (201, 204
\* and 302 among them) ends the call on that attempt with a
\* ProductiveAPIError that carries the status, and no sleep or request follows.
C28_Only200Returns ==
    \A c \in calls :
        /\ result[c].kind = "return" =>
              last[c].kind = "response" /\ last[c].status_code = 200
        /\ OtherStatus(c) =>
              /\ pc[c] = "raised"
              /\ result[c].kind = "raise"
              /\ result[c].exc.type = "ProductiveAPIError"
              /\ result[c].exc.status_code = Some(last[c].status_code)
              /\ Len(outs[c]) = attempt[c] + 1
              /\ events[c][Len(events[c])] = RequestEvent(attempt[c])

\* A 201 answered the first attempt, and the call raised with status 201.
C28_Witness ==
    /\ OtherStatus(1)
    /\ last[1].status_code = 201
    /\ attempt[1] = 0
    /\ result[1].exc.status_code = Some(201)

\* A 302 answered the attempt after a retry.
C28_WitnessAfterRetry ==
    /\ OtherStatus(1)
    /\ last[1].status_code = 302
    /\ attempt[1] = 1
    /\ pc[1] = "raised"

\* Call c ended with a result: it returned a value that is not None, or raised.
HasResult(c) ==
    \/ pc[c] = "returned" /\ result[c].kind = "return" /\ result[c].value # PyNone
    \/ pc[c] = "raised" /\ result[c].kind = "raise"

\* C29: when every awaited request is answered and every backoff sleep ends,
\* a _request call that was started ends, after at most 4 attempts and 3
\* sleeps, by returning a document or by raising: it never leaves the loop
\* returning None.
C29_Resolves ==
    \A c \in CallIds :
        (pc[c] = "awaiting") ~> (HasResult(c) /\ NumRequests(c) <= 4 /\ NumSleeps(c) <= 3)

\* The call used four attempts and three sleeps and returned at the last.
C29_Witness ==
    /\ HasResult(1)
    /\ pc[1] = "returned"
    /\ NumRequests(1) = 4
    /\ NumSleeps(1) = 3
    /\ outs[1] = <<Some(500), Some(429), None, Some(200)>>

\* The last attempt ended in a retryable status and the call raised.
C29_WitnessExhausted ==
    /\ HasResult(1)
    /\ pc[1] = "raised"
    /\ attempt[1] = max_retries
    /\ last[1].kind = "response"
    /\ last[1].status_code = 503

\* The requests that client.get_tasks and client.get_task issued: all those
\* of a call of either, and those of quick_search after its search request.
TaskRequests ==
    IF tool \in {"get_tasks", "get_task"} THEN {sent[i] : i \in 1..Len(sent)}
    ELSE IF tool = "quick_search" THEN {sent[i] : i \in 2..Len(sent)}
    ELSE {}

\* C26: every request that client.get_tasks and client.get_task issue has the
\* parameter include = workflow_status, whether the caller of get_tasks gave
\* no params, empty params or params with an include of its own, and every
\* other parameter the caller gave is in the request with its value.
C26_IncludeWorkflowStatus ==
    /\ \A request \in TaskRequests :
          /\ request.method = "GET"
          /\ Get(request.params, "include", JNull) = JStr("workflow_status")
    /\ (tool = "get_tasks" /\ args.params0 # JNull) =>
          \A k \in Keys(args.params0) \ {"include"} :
              Get(sent[1].params, k, NoOut) = args.params0.v[k]

\* get_tasks was called with an include of the caller's and another
\* parameter, and the request has the fixed include and the other parameter.
C26_Witness ==
    /\ tool = "get_tasks"
    /\ args.params0 = JDict(("filter[project_id]" :> JStr("7"))
                            @@ ("include" :> JStr("assignee,project")))
    /\ sent = <<Request("GET", "/tasks",
                        JDict(("filter[project_id]" :> JStr("7"))
                              @@ ("include" :> JStr("workflow_status"))))>>

\* get_tasks was called without params.
C26_WitnessAbsent ==
    /\ tool = "get_tasks"
    /\ args.params0 = JNull
    /\ sent = <<Request("GET", "/tasks", JDict([include |-> JStr("workflow_status")]))>>

\* get_task was called for task 12.
C26_WitnessTask ==
    /\ tool = "get_task"
    /\ sent = <<Request("GET", "/tasks/12", JDict([include |-> JStr("workflow_status")]))>>

\* The fields update_page was called with, None left out.
FieldsGiven ==
    {k \in {"title", "body"} : args[k] # JNull}

C27_WitnessNoFields ==
    /\ tool = "update_page"
    /\ FieldsGiven = {}
    /\ sent = <<>>
    /\ reply # NoOut

\* A search result that the claim has hydrated: its record_type is task and
\* its record_id is not empty.
ToHydrate(item) ==
    /\ item.v["attributes"].v["record_type"] = JStr("task")
    /\ item.v["attributes"].v["record_id"] # JStr("")

\* The path of the task a search result names.
TaskPath(item) ==
    CASE item.v["attributes"].v["record_id"] = JStr("7") -> "/tasks/7"
      [] item.v["attributes"].v["record_id"] = JStr("012") -> "/tasks/12"
      [] OTHER -> "?"

\* The search results the loop has come to: all up to the one whose
\* hydration is awaited, or all of them after the loop.
Visited == SubSeq(found, 1, IF pos > Len(found) THEN Len(found) ELSE pos)

C30_WitnessEmptyId ==
    /\ tool = "quick_search"
    /\ tpc = "done"
    /\ Len(found) = 3
    /\ found[2] = Hit("task", "", "Draft")
    /\ ToHydrate(found[1]) /\ ToHydrate(found[3])
    /\ Len(sent) = 3
====
